----------------------------- MODULE Spec2Model -----------------------------
(***************************************************************************)
(* Model of the zapret-ui orchestration core (service.go, app.go).         *)
(*                                                                         *)
(* Two callers drive one Service: the "ui" caller issues State,            *)
(* CheckAndUpdate, RunStrategy and StopStrategy (StopRunning + State);     *)
(* the "test" caller issues RunTests, whose supervisor loop, watcher       *)
(* goroutine, harness process and deadline are separate processes.         *)
(* The Service has no lock, so the callers interleave step by step.        *)
(***************************************************************************)
EXTENDS Integers, Sequences, FiniteSets, TLC

(***************************************************************************)
(* Bounds of the model.                                                    *)
(***************************************************************************)
\* RunTests invocations per behaviour that pass the preconditions.
MaxRuns == 1
\* Operations the ui caller invokes per behaviour.
MaxUiCalls == 3
\* Operations the ui caller invokes while a test run is in flight.
MaxOverlap == 1
\* Files a report-output directory can hold.
MaxFiles == 2
\* Result lines the harness writes into one report file.
MaxLines == 1
\* Consecutive calls of one function that are recorded.
MaxCalls == 2
\* Lines of a report text given to parseAnalytics, each drawn from all the
\* raw lines.
MaxContent == 2
\* Lines of the longer texts, each drawn from the plain raw lines.
MaxPlain == 3
\* Entries of the release directory given to listStrategies.
MaxEntries == 3
\* Goroutines that call loadConfig at the same time.
MaxCallers == 2

Tags == {"v1", "v2"}
NoTag == ""
\* A process identifier the launcher can print; 0 stands for output that
\* does not parse to a positive number (atoi yields 0).
Pids == {0, 1}
StrategyFile == "general.bat"
MissingFile == "missing.bat"
\* The absent value of an optional field (a nil pointer, an empty channel).
None == [nil |-> TRUE]

(***************************************************************************)
(* Config (service.go:44-53). testResults/bestStrategy hold what           *)
(* parseAnalytics produced; lastTestAt is abstracted to the run number     *)
(* during which it was stamped.                                            *)
(***************************************************************************)
EmptyResults == [n |-> 0, run |-> 0]

Config(v, ls, lt, tr, bs, ru, tip) ==
    [version |-> v, lastStrategy |-> ls, lastTestAt |-> lt, testResults |-> tr,
     bestStrategy |-> bs, running |-> ru, testInProgress |-> tip]

RunningInfo(f, p) == [file |-> f, pid |-> p]

\* loadConfig's fresh Config before Unmarshal (service.go:137-140).
DefaultConfig == Config(NoTag, "", 0, EmptyResults, "", None, FALSE)

\* A config.json cut short by an interrupted write.  It is not valid JSON;
\* its fields here are what a reader that ignores the parse error is left
\* with.
TornDoc ==
    [version |-> NoTag, lastStrategy |-> "", lastTestAt |-> 0,
     testResults |-> EmptyResults, bestStrategy |-> "", running |-> None,
     testInProgress |-> FALSE, torn |-> TRUE]

IsTorn(doc) == "torn" \in DOMAIN doc

\* os.ReadFile and json.Unmarshal into the fresh Config, the parse error
\* being dropped (service.go:141-144).
Unmarshal(doc) == IF IsTorn(doc) THEN DefaultConfig ELSE doc

VARIABLES
    config,      \* s.config: None while nil, else the in-memory Config
    disk,        \* the persisted config document (config.json)
    lastWrite,   \* the document most recently handed to os.WriteFile, or None
    saveLost,    \* a save has failed since the last one that succeeded
    releases,    \* releases[tag]: state of the directory releasesDir/tag
    resultsDir,  \* resultsDir[tag]: the directory utils/test results of a release
    alive,       \* the tracked strategy process (pid 1) is alive
    uiPc,        \* the ui caller's position
    uiRet,       \* what the ui caller's last operation returned
    uiCalls,     \* number of operations the ui caller has invoked
    rtPc,        \* the RunTests supervisor's position
    rtRun,       \* number of RunTests invocations that passed the preconditions
    rtCurrent,   \* RunTests' local `current` (the release it runs in)
    rtLocals,    \* RunTests' locals parsed, watchErr, cmdErr
    rtKilled,    \* killProcessTree was called on the harness PID in this run
    rtRet,       \* what the last RunTests invocation returned
    rtGhost,     \* history of the run: when the deadline expired, late results
    ctx,         \* the run's context: "none", "live", "deadline"
    watcher,     \* the watcher goroutine: "none", "polling", "orphan", "done"
    resultCh,    \* buffered channel of parsed results (capacity 1)
    errCh,       \* buffered channel of watcher errors (capacity 1), "" if empty
    harness,     \* the harness process: "none", "running", "exited", "killed"
    psDone,      \* buffered channel of cmd.Wait's result: "empty", "nil", "err",
                 \* or "drained" once received
    probe        \* the calls made on a single function and what they returned

vars == <<config, disk, lastWrite, saveLost, releases, resultsDir, alive,
          uiPc, uiRet, uiCalls, rtPc, rtRun, rtCurrent, rtLocals, rtKilled, rtRet,
          rtGhost, ctx, watcher, resultCh, errCh, harness, psDone, probe>>

rtVars == <<rtPc, rtRun, rtCurrent, rtLocals, rtKilled, rtRet, rtGhost,
            ctx, watcher, resultCh, errCh, harness, psDone>>


(***************************************************************************)
(* The store the operations work on, passed through the operators below:   *)
(* cfg (s.config), disk, lw (lastWrite), lost (saveLost), rel (releases),  *)
(* alive.                                                                  *)
(***************************************************************************)
World == [cfg |-> config, disk |-> disk, lw |-> lastWrite, lost |-> saveLost,
          rel |-> releases, alive |-> alive]

Commit(W) ==
    /\ config' = W.cfg
    /\ disk' = W.disk
    /\ lastWrite' = W.lw
    /\ saveLost' = W.lost
    /\ releases' = W.rel
    /\ alive' = W.alive

\* saveConfig (service.go:155-164): the whole document is written; `ok` is
\* whether os.WriteFile succeeded. Callers ignore the error unless noted.
saveConfig(W, ok) ==
    IF W.cfg = None THEN W
    ELSE IF ok THEN [W EXCEPT !.lw = W.cfg, !.disk = W.cfg, !.lost = FALSE]
    ELSE [W EXCEPT !.lw = W.cfg, !.lost = TRUE]

\* The bundled ./release directory holds this version when it is present.
BundledTag == "v1"

\* seedLocalRelease (service.go:167-197). bundled: a bundled release exists;
\* copyOk: copyDir succeeded. Yields the world and the detected version.
seedLocalRelease(W, bundled, copyOk) ==
    IF ~bundled THEN [w |-> W, v |-> NoTag]
    ELSE IF W.rel[BundledTag] # "absent" THEN [w |-> W, v |-> BundledTag]
    ELSE IF copyOk
         THEN [w |-> [W EXCEPT !.rel[BundledTag] = "full"], v |-> BundledTag]
         ELSE [w |-> [W EXCEPT !.rel[BundledTag] = "partial"], v |-> NoTag]

\* Inputs of loadConfig: ensureDirs succeeded, a bundled release exists,
\* copying it succeeded.
LoadInputs == [dirsOk : BOOLEAN, bundled : BOOLEAN, copyOk : BOOLEAN]

\* The inputs loadConfig reads in world W (the others are fixed to FALSE).
LoadChoices(W) ==
    {in \in LoadInputs :
        /\ W.cfg # None => ~in.dirsOk
        /\ (W.cfg # None \/ W.disk.version # NoTag \/ ~in.dirsOk) => ~in.bundled
        /\ (~in.bundled \/ W.rel[BundledTag] # "absent") => ~in.copyOk}

\* loadConfig (service.go:130-153): the cached Config when there is one,
\* else the document on disk, seeded with the bundled version when it records
\* none. Yields the world and whether it failed.
loadConfig(W, in) ==
    IF W.cfg # None THEN [w |-> W, err |-> FALSE]
    ELSE IF ~in.dirsOk THEN [w |-> W, err |-> TRUE]
    ELSE IF W.disk.version = NoTag
         THEN LET sd == seedLocalRelease(W, in.bundled, in.copyOk)
              IN  [w |-> [sd.w EXCEPT !.cfg = [Unmarshal(W.disk) EXCEPT !.version = sd.v]],
                   err |-> FALSE]
         ELSE [w |-> [W EXCEPT !.cfg = Unmarshal(W.disk)], err |-> FALSE]

\* currentReleasePath (service.go:247-253), as the tag of the directory.
currentReleasePath(W) == IF W.cfg = None THEN NoTag ELSE W.cfg.version

(***************************************************************************)
(* Report files. A file is [match, n, best, run]: its name matches          *)
(* test_results_*.txt, it holds n result lines, it holds the Best strategy *)
(* line, and it was written by the harness of invocation `run`.  A         *)
(* directory is [exists, files]: whether it exists and its files in        *)
(* modification order, the most recently modified last.                    *)
(***************************************************************************)
BestLabel == "best"

NoDir == [exists |-> FALSE, files |-> <<>>]
EmptyDir == [exists |-> TRUE, files |-> <<>>]

ReportFile(m, n, b, r) == [match |-> m, n |-> n, best |-> b, run |-> r]

\* parseAnalytics (service.go:645-707) on a file's content: an error when no
\* result line is recognised, else the result map and the best label.
parseAnalytics(f) ==
    IF f.n = 0 THEN [err |-> TRUE]
    ELSE [err |-> FALSE,
          Results |-> [n |-> f.n, run |-> f.run],
          Best |-> IF f.best THEN BestLabel ELSE ""]

\* parseLatestResult (service.go:523-553): the most recently modified file
\* of the directory, whatever its name, is read and parsed.
parseLatestResult(dir) ==
    IF ~dir.exists THEN [err |-> TRUE]
    ELSE IF Len(dir.files) = 0 THEN [err |-> TRUE]
    ELSE parseAnalytics(dir.files[Len(dir.files)])

\* isPIDRunning (service.go:976-986): false for pid <= 0, else what the
\* tasklist query shows (`listed`: the pid's digits occur in its output).
isPIDRunning(pid, listed) == pid > 0 /\ listed

(***************************************************************************)
(* State (service.go:199-245), after its loadConfig succeeded.  in.sv1 and *)
(* in.sv2 are the outcomes of its two saves, in.listed the tasklist answer. *)
(***************************************************************************)
StateInputs == [sv1 : BOOLEAN, sv2 : BOOLEAN, listed : BOOLEAN]

StateRehydrate(W, in) ==
    LET latest == parseLatestResult(resultsDir[currentReleasePath(W)])
    IN  IF ~latest.err /\ latest.Results.n > 0
        THEN saveConfig([W EXCEPT !.cfg.testResults = latest.Results,
                                  !.cfg.bestStrategy = latest.Best], in.sv1)
        ELSE W

StateValidateRunning(W, in) ==
    IF W.cfg.running # None /\ ~isPIDRunning(W.cfg.running.pid, in.listed)
    THEN saveConfig([W EXCEPT !.cfg.running = None], in.sv2)
    ELSE W

StateBody(W, in) ==
    IF currentReleasePath(W) # NoTag
    THEN StateValidateRunning(StateRehydrate(W, in), in)
    ELSE W

\* What State's tag lookup leaves in `latest` (service.go:223): the tag, or
\* the empty string when latestTag failed (`out` is "err").
latestTag(out) == IF out = "err" THEN NoTag ELSE out

\* A snapshot whose hasUpdate does not ask for a non-empty tag.
StateSnapshotAnyTag(W, out) ==
    [latestTag |-> latestTag(out),
     hasUpdate |-> latestTag(out) # W.cfg.version,
     version |-> W.cfg.version,
     running |-> W.cfg.running]

\* The snapshot State returns (service.go:223-244), built from the Config as
\* the read left it; the strategy list is left out.
StateSnapshot(W, out) ==
    [latestTag |-> latestTag(out),
     hasUpdate |-> latestTag(out) # NoTag /\ latestTag(out) # W.cfg.version,
     version |-> W.cfg.version,
     running |-> W.cfg.running]

(***************************************************************************)
(* StopRunning (service.go:888-933), after its loadConfig succeeded.       *)
(* in.byName: the kills by process name ended the tracked process;         *)
(* in.listed: tasklist shows the tracked pid; in.byPid: the kills by pid    *)
(* ended it; in.sv: the save succeeded.                                    *)
(***************************************************************************)
StopInputs == [byName : BOOLEAN, listed : BOOLEAN, byPid : BOOLEAN, sv : BOOLEAN]

\* The three kills of winws.exe by name (service.go:894-917).
KillByName(W, in) == [W EXCEPT !.alive = @ /\ ~in.byName]

\* The kills of the tracked pid, tried when it is listed (service.go:921-926).
KillTracked(W, in) ==
    IF isPIDRunning(W.cfg.running.pid, in.listed)
    THEN [W EXCEPT !.alive = @ /\ ~in.byPid]
    ELSE W

\* A StopRunning that forgets the entry only when it found the process.
StopRunningBodyIfAlive(W, in) ==
    LET K == KillByName(W, in)
    IN  IF K.cfg.running # None /\ isPIDRunning(K.cfg.running.pid, in.listed)
        THEN saveConfig([KillTracked(K, in) EXCEPT !.cfg.running = None], in.sv)
        ELSE K

StopRunningBody(W, in) ==
    LET K == KillByName(W, in)
    IN  IF K.cfg.running # None
        THEN saveConfig([KillTracked(K, in) EXCEPT !.cfg.running = None], in.sv)
        ELSE K

(***************************************************************************)
(* RunStrategy (service.go:832-885) from the point where its StopRunning   *)
(* call has returned.  in.runOk: the launcher ran; in.pid: atoi of its     *)
(* output.  Yields the world and the error returned ("" for nil).          *)
(***************************************************************************)
LaunchInputs == [runOk : BOOLEAN, pid : Pids, sv1 : BOOLEAN, sv2 : BOOLEAN,
                 st : StateInputs]

\* os.Stat(full): the file is there when the release was fully extracted.
StrategyExists(W, file) ==
    W.rel[currentReleasePath(W)] = "full" /\ file = StrategyFile

RunStrategyTrack(W, file, in) ==
    IF in.pid > 0
    THEN saveConfig([W EXCEPT !.cfg.running = RunningInfo(file, in.pid),
                              !.alive = TRUE], in.sv1)
    ELSE W

RunStrategyLaunch(W, file, in) ==
    IF currentReleasePath(W) = NoTag THEN [w |-> W, err |-> "no current release"]
    ELSE IF ~StrategyExists(W, file) THEN [w |-> W, err |-> "not found"]
    ELSE IF ~in.runOk THEN [w |-> W, err |-> "launch failed"]
    ELSE LET T == RunStrategyTrack(W, file, in)
             L == saveConfig([T EXCEPT !.cfg.lastStrategy = file], in.sv2)
         IN  [w |-> StateBody(L, in.st), err |-> ""]

(***************************************************************************)
(* downloadAndUnpack (service.go:302-332) with unzipBuffer (334-369).      *)
(* dl is how the download goes: "dirs" (ensureDirs failed), "net" (request  *)
(* or body read failed), "http" (status >= 400), "archive" (zip.NewReader  *)
(* failed), "extract" (an entry failed after the directory was created),   *)
(* "empty" (the archive holds no entry, nothing is created), "ok".         *)
(***************************************************************************)
DownloadOutcomes == {"dirs", "net", "http", "archive", "extract", "empty", "ok"}

\* A download that does not look for the tag's directory first.
downloadAndUnpackAlways(W, tag, dl) ==
    IF tag = NoTag THEN [w |-> W, err |-> "tag empty", work |-> "none"]
    ELSE IF dl = "dirs" THEN [w |-> W, err |-> "dirs", work |-> "none"]
    ELSE IF dl \in {"net", "http"} THEN [w |-> W, err |-> dl, work |-> "request"]
    ELSE IF dl = "archive" THEN [w |-> W, err |-> dl, work |-> "unzip"]
    ELSE IF dl = "empty" THEN [w |-> W, err |-> "", work |-> "unzip"]
    ELSE IF dl = "extract"
         THEN [w |-> [W EXCEPT !.rel[tag] = "partial"], err |-> "extract",
               work |-> "unzip"]
         ELSE [w |-> [W EXCEPT !.rel[tag] = "full"], err |-> "", work |-> "unzip"]

\* Yields the world, the error ("" for nil) and the work done: "none",
\* "request" (the HTTP request was issued, service.go:313-330) or "unzip"
\* (the request and unzipBuffer, service.go:331).
downloadAndUnpack(W, tag, dl) ==
    IF tag = NoTag THEN [w |-> W, err |-> "tag empty", work |-> "none"]
    ELSE IF dl = "dirs" THEN [w |-> W, err |-> "dirs", work |-> "none"]
    ELSE IF W.rel[tag] # "absent" THEN [w |-> W, err |-> "", work |-> "none"]
    ELSE IF dl \in {"net", "http"} THEN [w |-> W, err |-> dl, work |-> "request"]
    ELSE IF dl = "archive" THEN [w |-> W, err |-> dl, work |-> "unzip"]
    ELSE IF dl = "empty" THEN [w |-> W, err |-> "", work |-> "unzip"]
    ELSE IF dl = "extract"
         THEN [w |-> [W EXCEPT !.rel[tag] = "partial"], err |-> "extract",
               work |-> "unzip"]
         ELSE [w |-> [W EXCEPT !.rel[tag] = "full"], err |-> "", work |-> "unzip"]

(***************************************************************************)
(* CheckAndUpdate (service.go:280-300), after its loadConfig succeeded.    *)
(* in.tag: what latestTag returned ("err" when it failed).                 *)
(***************************************************************************)
TagOutcomes == Tags \cup {NoTag, "err"}

UpdateInputs == [tag : TagOutcomes, dl : DownloadOutcomes, sv : BOOLEAN,
                 st : StateInputs]

\* A CheckAndUpdate that records the new version before unpacking it.
CheckAndUpdateBodyEager(W, in) ==
    IF in.tag = "err" THEN [w |-> W, err |-> "latest tag", work |-> "none"]
    ELSE IF W.cfg.version = in.tag /\ in.tag # NoTag
         THEN [w |-> StateBody(W, in.st), err |-> "", work |-> "none"]
    ELSE LET E == [W EXCEPT !.cfg.version = in.tag]
             D == downloadAndUnpack(E, in.tag, in.dl)
         IN  IF D.err # "" THEN D
             ELSE LET V == saveConfig(D.w, in.sv)
                  IN  IF ~in.sv THEN [w |-> V, err |-> "save", work |-> D.work]
                      ELSE [w |-> StateBody(V, in.st), err |-> "", work |-> D.work]

\* A CheckAndUpdate that goes to downloadAndUnpack whatever the tag is.
CheckAndUpdateBodyNoShortcut(W, in) ==
    IF in.tag = "err" THEN [w |-> W, err |-> "latest tag", work |-> "none"]
    ELSE LET D == downloadAndUnpack(W, in.tag, in.dl)
         IN  IF D.err # "" THEN D
             ELSE LET V == saveConfig([D.w EXCEPT !.cfg.version = in.tag], in.sv)
                  IN  IF ~in.sv THEN [w |-> V, err |-> "save", work |-> D.work]
                      ELSE [w |-> StateBody(V, in.st), err |-> "", work |-> D.work]

\* Yields the world, the error ("" for nil; a snapshot is returned exactly
\* then) and the work downloadAndUnpack did.
CheckAndUpdateBody(W, in) ==
    IF in.tag = "err" THEN [w |-> W, err |-> "latest tag", work |-> "none"]
    ELSE IF W.cfg.version = in.tag /\ in.tag # NoTag
         THEN [w |-> StateBody(W, in.st), err |-> "", work |-> "none"]
    ELSE LET D == downloadAndUnpack(W, in.tag, in.dl)
         IN  IF D.err # "" THEN D
             ELSE LET V == saveConfig([D.w EXCEPT !.cfg.version = in.tag], in.sv)
                  IN  IF ~in.sv THEN [w |-> V, err |-> "save", work |-> D.work]
                      ELSE [w |-> StateBody(V, in.st), err |-> "", work |-> D.work]

(***************************************************************************)
(* The ui caller (app.go:28-54).  Each bound method is dispatched as its   *)
(* own goroutine: Call marks the invocation in flight, the following       *)
(* actions run the handler.                                                *)
(***************************************************************************)
UiOps == {"State", "CheckAndUpdate", "RunStrategy", "StopStrategy"}

NoReturn == [op |-> "", err |-> ""]

UiReturn(op, err) == uiRet' = [op |-> op, err |-> err] /\ UNCHANGED uiCalls

UiCall ==
    /\ uiPc = "idle"
    /\ uiCalls < MaxUiCalls
    /\ \E op \in UiOps : uiPc' = op
    /\ uiRet' = NoReturn
    /\ uiCalls' = uiCalls + 1
    /\ UNCHANGED <<config, disk, lastWrite, saveLost, releases, resultsDir,
                   alive>>
    /\ UNCHANGED <<rtVars, probe>>

\* The ui caller reads the state or stops the strategy while a RunTests
\* invocation is in flight: nothing in Service or App holds it back.
UiCallDuringTests ==
    /\ uiPc = "idle"
    /\ rtPc # "idle"
    /\ uiCalls < MaxOverlap
    /\ \E op \in {"State", "StopStrategy"} : uiPc' = op
    /\ uiRet' = NoReturn
    /\ uiCalls' = uiCalls + 1
    /\ UNCHANGED <<config, disk, lastWrite, saveLost, releases, resultsDir,
                   alive>>
    /\ UNCHANGED <<rtVars, probe>>

\* The ui caller invokes StopStrategy at any moment, a test run being in
\* flight or not.
UiCallAbort ==
    /\ uiPc = "idle"
    /\ uiCalls < MaxOverlap
    /\ uiPc' = "StopStrategy"
    /\ uiRet' = NoReturn
    /\ uiCalls' = uiCalls + 1
    /\ UNCHANGED <<config, disk, lastWrite, saveLost, releases, resultsDir,
                   alive>>
    /\ UNCHANGED <<rtVars, probe>>

\* App.GetState -> Service.State
UiState ==
    /\ uiPc = "State"
    /\ \E ld \in LoadChoices(World), in \in StateInputs :
          LET L == loadConfig(World, ld)
          IN  IF L.err
              THEN Commit(L.w) /\ UiReturn("State", "load")
              ELSE Commit(StateBody(L.w, in)) /\ UiReturn("State", "")
    /\ uiPc' = "idle"
    /\ UNCHANGED resultsDir
    /\ UNCHANGED <<rtVars, probe>>

\* App.CheckAndUpdate -> Service.CheckAndUpdate
UiCheckAndUpdate ==
    /\ uiPc = "CheckAndUpdate"
    /\ \E ld \in LoadChoices(World), in \in UpdateInputs :
          LET L == loadConfig(World, ld)
          IN  IF L.err
              THEN Commit(L.w) /\ UiReturn("CheckAndUpdate", "load")
              ELSE LET R == CheckAndUpdateBody(L.w, in)
                   IN  Commit(R.w) /\ UiReturn("CheckAndUpdate", R.err)
    /\ uiPc' = "idle"
    /\ UNCHANGED resultsDir
    /\ UNCHANGED <<rtVars, probe>>

\* A StopRunning that would wait for a RunTests invocation in flight.
UiStopRunningAfterTests ==
    /\ uiPc = "StopStrategy"
    /\ rtPc = "idle"
    /\ \E ld \in LoadChoices(World), in \in StopInputs :
          LET L == loadConfig(World, ld)
          IN  IF L.err
              THEN Commit(L.w) /\ UiReturn("StopStrategy", "load")
                   /\ uiPc' = "idle"
              ELSE Commit(StopRunningBody(L.w, in)) /\ UNCHANGED <<uiRet, uiCalls>>
                   /\ uiPc' = "StopStrategy.State"
    /\ UNCHANGED resultsDir
    /\ UNCHANGED <<rtVars, probe>>

\* App.StopStrategy: Service.StopRunning, up to its return.
UiStopRunning ==
    /\ uiPc = "StopStrategy"
    /\ \E ld \in LoadChoices(World), in \in StopInputs :
          LET L == loadConfig(World, ld)
          IN  IF L.err
              THEN Commit(L.w) /\ UiReturn("StopStrategy", "load")
                   /\ uiPc' = "idle"
              ELSE Commit(StopRunningBody(L.w, in)) /\ UNCHANGED <<uiRet, uiCalls>>
                   /\ uiPc' = "StopStrategy.State"
    /\ UNCHANGED resultsDir
    /\ UNCHANGED <<rtVars, probe>>

\* App.StopStrategy: the State call that follows StopRunning.
UiStopState ==
    /\ uiPc = "StopStrategy.State"
    /\ \E in \in StateInputs :
          Commit(StateBody(World, in)) /\ UiReturn("StopStrategy", "")
    /\ uiPc' = "idle"
    /\ UNCHANGED resultsDir
    /\ UNCHANGED <<rtVars, probe>>

\* Service.RunStrategy: loadConfig and the StopRunning call, up to its return.
UiRunStrategyStop ==
    /\ uiPc = "RunStrategy"
    /\ \E ld \in LoadChoices(World), in \in StopInputs :
          LET L == loadConfig(World, ld)
          IN  IF L.err
              THEN Commit(L.w) /\ UiReturn("RunStrategy", "load")
                   /\ uiPc' = "idle"
              ELSE Commit(StopRunningBody(L.w, in)) /\ UNCHANGED <<uiRet, uiCalls>>
                   /\ uiPc' = "RunStrategy.launch"
    /\ UNCHANGED resultsDir
    /\ UNCHANGED <<rtVars, probe>>

\* Service.RunStrategy: resolving and launching the file, to the return.
UiRunStrategyLaunch ==
    /\ uiPc = "RunStrategy.launch"
    /\ \E file \in {StrategyFile, MissingFile}, in \in LaunchInputs :
          LET R == RunStrategyLaunch(World, file, in)
          IN  Commit(R.w) /\ UiReturn("RunStrategy", R.err)
    /\ uiPc' = "idle"
    /\ UNCHANGED resultsDir
    /\ UNCHANGED <<rtVars, probe>>

\* The tracked strategy process ends on its own.
StrategyExit ==
    /\ alive
    /\ alive' = FALSE
    /\ UNCHANGED <<config, disk, lastWrite, saveLost, releases, resultsDir,
                   uiPc, uiRet, uiCalls>>
    /\ UNCHANGED <<rtVars, probe>>

(***************************************************************************)
(* RunTests (service.go:397-516).                                          *)
(***************************************************************************)
\* History of a run, read by the properties only.  expired: "no", "waiting"
\* (the deadline expired while the supervisor was in its wait loop and no
\* result had been delivered), "other".  graceResult: the watcher delivered a
\* result during the grace period that follows a failed exit.  delivered:
\* the file the watcher parsed for the result it delivered, and whether
\* the harness was still running then.
NoGhost ==
    [expired |-> "no", graceResult |-> FALSE, delivered |-> None, sent |-> 0]

NoLocals == [parsed |-> None, watchErr |-> "", cmdErr |-> ""]

RtReturn(state, err, path) ==
    rtRet' = [state |-> state, err |-> err, path |-> path]

\* Precondition checks that do not look for the harness script.
RunTestsPreconditionsNoStat(W) ==
    IF currentReleasePath(W) = NoTag THEN "no current release"
    ELSE ""

\* The precondition checks (service.go:402-409): "" when they pass.
RunTestsPreconditions(W) ==
    IF currentReleasePath(W) = NoTag THEN "no current release"
    ELSE IF W.rel[currentReleasePath(W)] # "full" THEN "no script"
    ELSE ""

\* os.RemoveAll then os.MkdirAll on the report directory (service.go:412-414),
\* both errors ignored.
ResetResultsDir(dir, rmOk, mkOk) ==
    IF dir.exists /\ ~rmOk THEN dir
    ELSE IF mkOk THEN EmptyDir
    ELSE NoDir

\* The fields RunTests clears before launching (service.go:417-420).
RunTestsMark(cfg, now) ==
    [cfg EXCEPT !.testResults = EmptyResults, !.bestStrategy = "",
                !.testInProgress = TRUE, !.lastTestAt = now]

\* The fields set on launch failure (service.go:436-439).
RunTestsUnmark(cfg, now) ==
    [cfg EXCEPT !.testResults = EmptyResults, !.bestStrategy = "",
                !.testInProgress = FALSE, !.lastTestAt = now]

\* RunTests up to `go s.waitForResultFile` (service.go:398-428).
RtCall ==
    /\ rtPc = "idle"
    /\ rtRun < MaxRuns
    /\ \E ld \in LoadChoices(World), rmOk \in BOOLEAN, mkOk \in BOOLEAN, sv \in BOOLEAN :
          LET L == loadConfig(World, ld)
              pre == RunTestsPreconditions(L.w)
              cur == currentReleasePath(L.w)
          IN  IF L.err \/ pre # ""
              THEN /\ Commit(L.w)
                   /\ RtReturn(FALSE, IF L.err THEN "load" ELSE pre, "pre")
                   /\ UNCHANGED <<resultsDir, rtPc, rtRun, rtCurrent, rtLocals,
                                  rtKilled, rtGhost, ctx, watcher, resultCh,
                                  errCh, harness, psDone>>
              ELSE /\ resultsDir' = [resultsDir EXCEPT
                                        ![cur] = ResetResultsDir(@, rmOk, mkOk)]
                   /\ Commit(saveConfig(
                          [L.w EXCEPT !.cfg = RunTestsMark(@, rtRun + 1)], sv))
                   /\ rtRun' = rtRun + 1
                   /\ rtCurrent' = cur
                   /\ rtLocals' = NoLocals
                   /\ rtKilled' = FALSE
                   /\ rtGhost' = NoGhost
                   /\ ctx' = "live"
                   /\ watcher' = "polling"
                   /\ resultCh' = None
                   /\ errCh' = ""
                   /\ harness' = "none"
                   /\ psDone' = "empty"
                   /\ rtPc' = "launch"
                   /\ UNCHANGED rtRet
    /\ UNCHANGED <<uiPc, uiRet, uiCalls, probe>>

\* The return of an invocation that started its watcher.  The deferred
\* cancel() cancels the context: exec.CommandContext kills a harness that is
\* still running, and a watcher that is still polling is left behind with a
\* cancelled context.  The invocation's context, channels and process handle
\* are unreachable from then on and are dropped from the state.
CancelAtReturn ==
    /\ ctx' = "none"
    /\ watcher' = IF watcher = "polling" THEN "orphan" ELSE watcher
    /\ resultCh' = None
    /\ errCh' = ""
    /\ harness' = "none"
    /\ psDone' = "empty"

\* startPowerShellToLog (service.go:597-636) and the launch-failure return
\* (service.go:434-446).
RtLaunch ==
    /\ rtPc = "launch"
    /\ \E started \in BOOLEAN, sv \in BOOLEAN, st \in StateInputs :
          IF started
          THEN /\ harness' = "running"
               /\ rtPc' = "wait"
               /\ UNCHANGED <<config, disk, lastWrite, saveLost, releases,
                              alive, rtRet, ctx, psDone, watcher, resultCh,
                              errCh>>
          ELSE /\ Commit(StateBody(saveConfig(
                      [World EXCEPT !.cfg = RunTestsUnmark(@, rtRun)], sv), st))
               /\ RtReturn(TRUE, "start", "launch failed")
               /\ CancelAtReturn
               /\ rtPc' = "idle"
    /\ UNCHANGED <<resultsDir, uiPc, uiRet, uiCalls, probe, rtRun, rtCurrent, rtLocals,
                   rtKilled, rtGhost>>

(***************************************************************************)
(* The wait loop's select (service.go:452-485).  Each case is an operator  *)
(* on the locals that yields the new locals, whether killProcessTree is    *)
(* called on the harness PID, and where the supervisor goes next.          *)
(***************************************************************************)
\* A result case that leaves the harness running.
CaseResultNoKill(l, msg) ==
    [l |-> [l EXCEPT !.parsed = msg, !.watchErr = ""],
     kill |-> FALSE, pc |-> "reconcile"]

CaseResult(l, msg) ==
    [l |-> [l EXCEPT !.parsed = msg, !.watchErr = ""],
     kill |-> TRUE, pc |-> "reconcile"]

CaseWatchErr(l, e) ==
    [l |-> [l EXCEPT !.watchErr = e], kill |-> TRUE, pc |-> "reconcile"]

\* A psDone case that would leave the loop on a successful exit too.
CaseDoneAlwaysBreaks(l, e) ==
    [l |-> [l EXCEPT !.cmdErr = e], kill |-> FALSE, pc |-> "grace"]

CaseDone(l, e) ==
    [l |-> [l EXCEPT !.cmdErr = e], kill |-> FALSE,
     pc |-> IF e # "" THEN "grace" ELSE "wait"]

CaseCtxDone(l) ==
    [l |-> [l EXCEPT !.watchErr = "deadline"], kill |-> TRUE, pc |-> "reconcile"]

\* killProcessTree (service.go:638-643) on the harness: taskkill is best
\* effort; `eff` is whether it ended the process.  cmd.Wait then reports the
\* kill on psDone.
SelectStep(c, eff) ==
    /\ rtLocals' = c.l
    /\ rtPc' = c.pc
    /\ rtKilled' = (rtKilled \/ c.kill)
    /\ IF c.kill /\ eff /\ harness = "running"
       THEN harness' = "killed" /\ psDone' = "err"
       ELSE UNCHANGED <<harness, psDone>>

RtFrame ==
    UNCHANGED <<config, disk, lastWrite, saveLost, releases, resultsDir, alive,
                uiPc, uiRet, uiCalls, probe, rtRun, rtCurrent, rtRet, rtGhost, ctx,
                watcher>>

\* case parsed = <-resultCh
RtRecvResult ==
    /\ rtPc = "wait"
    /\ resultCh # None
    /\ \E eff \in BOOLEAN : SelectStep(CaseResult(rtLocals, resultCh), eff)
    /\ resultCh' = None
    /\ UNCHANGED errCh
    /\ RtFrame

\* case watchErr = <-errCh
RtRecvWatchErr ==
    /\ rtPc = "wait"
    /\ errCh # ""
    /\ \E eff \in BOOLEAN : SelectStep(CaseWatchErr(rtLocals, errCh), eff)
    /\ errCh' = ""
    /\ UNCHANGED resultCh
    /\ RtFrame

\* case cmdErr = <-psDone
RtRecvDone ==
    /\ rtPc = "wait"
    /\ psDone \in {"nil", "err"}
    /\ LET c == CaseDone(rtLocals, IF psDone = "err" THEN "exit" ELSE "")
       IN  /\ rtLocals' = c.l
           /\ rtPc' = c.pc
           /\ rtKilled' = (rtKilled \/ c.kill)
    /\ psDone' = "drained"
    /\ UNCHANGED <<harness, resultCh, errCh>>
    /\ RtFrame

\* case <-ctx.Done()
RtCtxDone ==
    /\ rtPc = "wait"
    /\ ctx = "deadline"
    /\ \E eff \in BOOLEAN : SelectStep(CaseCtxDone(rtLocals), eff)
    /\ UNCHANGED <<resultCh, errCh>>
    /\ RtFrame

\* The 500 ms sleep after a failed exit ends (service.go:472-473).
RtGraceEnd ==
    /\ rtPc = "grace"
    /\ rtPc' = "reconcile"
    /\ UNCHANGED <<rtLocals, rtKilled, harness, psDone, resultCh, errCh>>
    /\ RtFrame

\* A reconciliation that leaves the in-progress flag as it was.
ReconcileKeepFlag(cfg, l, now) ==
    IF l.parsed # None
    THEN [cfg EXCEPT !.testResults = l.parsed.Results,
                     !.bestStrategy = l.parsed.Best, !.lastTestAt = now]
    ELSE [cfg EXCEPT !.testResults = EmptyResults, !.bestStrategy = "",
                     !.lastTestAt = now]

\* Reconciliation of the Config (service.go:487-495).
Reconcile(cfg, l, now) ==
    IF l.parsed # None
    THEN [cfg EXCEPT !.testResults = l.parsed.Results,
                     !.bestStrategy = l.parsed.Best,
                     !.testInProgress = FALSE, !.lastTestAt = now]
    ELSE [cfg EXCEPT !.testResults = EmptyResults, !.bestStrategy = "",
                     !.testInProgress = FALSE, !.lastTestAt = now]

\* An error choice that passes over an expired deadline as it does over a
\* cancelled context.
ReturnErrorSkipDeadline(l) ==
    IF l.parsed = None
    THEN IF l.watchErr # "" /\ l.watchErr # "canceled" /\ l.watchErr # "deadline"
         THEN l.watchErr
         ELSE IF l.cmdErr # "" THEN l.cmdErr
         ELSE "not found"
    ELSE l.cmdErr

\* The error RunTests returns after the loop (service.go:500-515); State
\* cannot fail here, the Config being loaded.
ReturnError(l) ==
    IF l.parsed = None
    THEN IF l.watchErr # "" /\ l.watchErr # "canceled" THEN l.watchErr
         ELSE IF l.cmdErr # "" THEN l.cmdErr
         ELSE "not found"
    ELSE l.cmdErr

\* service.go:487-516
RtReconcile ==
    /\ rtPc = "reconcile"
    /\ \E sv \in BOOLEAN, st \in StateInputs :
          \E W \in {StateBody(saveConfig(
                        [World EXCEPT !.cfg = Reconcile(@, rtLocals, rtRun)],
                        sv), st)} :
              Commit(W)
    /\ RtReturn(TRUE, ReturnError(rtLocals), "loop")
    /\ CancelAtReturn
    /\ rtPc' = "idle"
    /\ UNCHANGED <<resultsDir, uiPc, uiRet, uiCalls, probe, rtRun, rtCurrent, rtLocals,
                   rtKilled, rtGhost>>

(***************************************************************************)
(* The run's clock, harness process and watcher goroutine.                 *)
(***************************************************************************)
EnvFrame ==
    UNCHANGED <<config, disk, lastWrite, saveLost, releases, alive, uiPc, uiRet,
                uiCalls, probe, rtPc, rtRun, rtCurrent, rtLocals, rtKilled, rtRet>>

\* A context without a deadline: the clock never fires.
DeadlineNever ==
    /\ ctx = "live"
    /\ FALSE
    /\ UNCHANGED vars

\* The 12 minute deadline of context.WithTimeout expires (service.go:423).
Deadline ==
    /\ ctx = "live"
    /\ ctx' = "deadline"
    /\ rtGhost' = [rtGhost EXCEPT !.expired =
                      IF rtPc = "wait" /\ resultCh = None
                      THEN "waiting" ELSE "other"]
    /\ UNCHANGED <<resultsDir, watcher, resultCh, errCh, harness, psDone>>
    /\ EnvFrame

\* exec.CommandContext kills the harness once the context is done
\* (service.go:604); cmd.Wait reports it on psDone (service.go:629-633).
CmdCtxKill ==
    /\ ctx = "deadline"
    /\ harness = "running"
    /\ harness' = "killed"
    /\ psDone' = "err"
    /\ UNCHANGED <<resultsDir, rtGhost, ctx, watcher, resultCh, errCh>>
    /\ EnvFrame

\* The harness exits on its own, with or without a failure.
HarnessExit ==
    /\ harness = "running"
    /\ harness' = "exited"
    /\ \E r \in {"nil", "err"} : psDone' = r
    /\ UNCHANGED <<resultsDir, rtGhost, ctx, watcher, resultCh, errCh>>
    /\ EnvFrame

\* files with file i rewritten as f and moved last (its modification time is
\* now the newest).
Touch(files, i, f) ==
    Append(SubSeq(files, 1, i - 1) \o SubSeq(files, i + 1, Len(files)), f)

\* The harness of invocation `run` has created a file of that kind.
Wrote(files, run, match) ==
    \E i \in 1..Len(files) : files[i].run = run /\ files[i].match = match

\* The harness creates a file in the report directory of its release: its
\* report, still empty, or a file of another name holding result lines; one
\* of each per run.
HarnessCreate ==
    /\ harness = "running"
    /\ resultsDir[rtCurrent].exists
    /\ Len(resultsDir[rtCurrent].files) < MaxFiles
    /\ \E f \in {ReportFile(TRUE, 0, FALSE, rtRun),
                  ReportFile(FALSE, 1, FALSE, rtRun)} :
          /\ ~Wrote(resultsDir[rtCurrent].files, rtRun, f.match)
          /\ resultsDir' = [resultsDir EXCEPT ![rtCurrent].files = Append(@, f)]
    /\ UNCHANGED <<rtGhost, ctx, watcher, resultCh, errCh, harness, psDone>>
    /\ EnvFrame

\* The harness appends to its report: a result line, or the closing
\* Best strategy line.
HarnessAppend ==
    /\ harness = "running"
    /\ resultsDir[rtCurrent].exists
    /\ \E i \in 1..Len(resultsDir[rtCurrent].files) :
          LET f == resultsDir[rtCurrent].files[i]
          IN  /\ f.run = rtRun
              /\ f.match
              /\ ~f.best
              /\ \/ /\ f.n < MaxLines
                    /\ resultsDir' = [resultsDir EXCEPT ![rtCurrent].files =
                                         Touch(@, i, [f EXCEPT !.n = f.n + 1])]
                 \/ /\ f.n >= 1
                    /\ resultsDir' = [resultsDir EXCEPT ![rtCurrent].files =
                                         Touch(@, i, [f EXCEPT !.best = TRUE])]
    /\ UNCHANGED <<rtGhost, ctx, watcher, resultCh, errCh, harness, psDone>>
    /\ EnvFrame

(***************************************************************************)
(* waitForResultFile (service.go:556-595).  A tick that finds nothing to   *)
(* deliver changes nothing and is left to stuttering.                      *)
(***************************************************************************)
\* The scan for a file named test_results_*.txt (service.go:572-582).
hasResultFile(dir) ==
    \E i \in 1..Len(dir.files) : dir.files[i].match

\* What one tick sends: an error, a result, or nothing.
WatcherTick(dir) ==
    IF ~dir.exists THEN [send |-> "err"]
    ELSE IF ~hasResultFile(dir) THEN [send |-> "nothing"]
    ELSE LET parsed == parseLatestResult(dir)
         IN  IF parsed.err THEN [send |-> "nothing"]
             ELSE [send |-> "result",
                   msg |-> [Results |-> parsed.Results, Best |-> parsed.Best]]

\* case <-ctx.Done(): errCh <- ctx.Err(), the deadline having expired
WatcherCtxDone ==
    /\ watcher = "polling"
    /\ ctx = "deadline"
    /\ errCh' = "deadline"
    /\ watcher' = "done"
    /\ rtGhost' = [rtGhost EXCEPT !.sent = @ + 1]
    /\ UNCHANGED <<resultsDir, ctx, resultCh, harness, psDone>>
    /\ EnvFrame

\* A watcher left behind by a returned invocation ends: on ctx.Done() or on
\* a last tick it sends into a channel nobody receives from.
\* After RunTests returned, its deferred cancel has closed ctx.Done: the
\* watcher sends ctx.Err() (or what its last poll found) into a channel
\* nobody reads any more, and returns.
WatcherOrphanExit ==
    /\ watcher = "orphan"
    /\ watcher' = "done"
    /\ rtGhost' = [rtGhost EXCEPT !.sent = @ + 1]
    /\ UNCHANGED <<resultsDir, ctx, resultCh, errCh, harness, psDone>>
    /\ EnvFrame

\* case <-ticker.C, ending in errCh <- err
WatcherReadDirErr ==
    /\ watcher = "polling"
    /\ WatcherTick(resultsDir[rtCurrent]).send = "err"
    /\ errCh' = "readdir"
    /\ watcher' = "done"
    /\ rtGhost' = [rtGhost EXCEPT !.sent = @ + 1]
    /\ UNCHANGED <<resultsDir, ctx, resultCh, harness, psDone>>
    /\ EnvFrame

\* case <-ticker.C, ending in resultCh <- parsed
\* A watcher that would go on polling after it has sent a result.
WatcherDeliverAndContinue ==
    /\ watcher = "polling"
    /\ WatcherTick(resultsDir[rtCurrent]).send = "result"
    /\ resultCh' = WatcherTick(resultsDir[rtCurrent]).msg
    /\ watcher' = "polling"
    /\ rtGhost' = [rtGhost EXCEPT
                      !.graceResult = (rtPc = "grace"),
                      !.sent = IF @ < 2 THEN @ + 1 ELSE @,
                      !.delivered =
                          [file |-> resultsDir[rtCurrent].files[
                                        Len(resultsDir[rtCurrent].files)],
                           writing |-> harness = "running"]]
    /\ UNCHANGED <<resultsDir, ctx, errCh, harness, psDone>>
    /\ EnvFrame

WatcherDeliver ==
    /\ watcher = "polling"
    /\ WatcherTick(resultsDir[rtCurrent]).send = "result"
    /\ resultCh' = WatcherTick(resultsDir[rtCurrent]).msg
    /\ watcher' = "done"
    /\ rtGhost' = [rtGhost EXCEPT
                      !.graceResult = (rtPc = "grace"),
                      !.sent = @ + 1,
                      !.delivered =
                          [file |-> resultsDir[rtCurrent].files[
                                        Len(resultsDir[rtCurrent].files)],
                           writing |-> harness = "running"]]
    /\ UNCHANGED <<resultsDir, ctx, errCh, harness, psDone>>
    /\ EnvFrame

(***************************************************************************)
(* Calls of single functions, one after the other on the same Service,     *)
(* each recorded with what it was given and what it returned.              *)
(***************************************************************************)
NoProbe == [fn |-> "none"]

\* downloadAndUnpack(tag), called up to MaxCalls times (service.go:302-332).
\* Each call is recorded with its tag, the download's outcome, the error
\* returned, the work done and the state of the tag's directory afterwards.
CallUnpack ==
    /\ probe.fn \in {"none", "downloadAndUnpack"}
    /\ LET calls == IF probe.fn = "none" THEN <<>> ELSE probe.calls
       IN  /\ Len(calls) < MaxCalls
           /\ \E tag \in Tags \cup {NoTag}, dl \in DownloadOutcomes :
                 LET R == downloadAndUnpack(World, tag, dl)
                 IN  /\ Commit(R.w)
                     /\ probe' = [fn |-> "downloadAndUnpack",
                                  calls |-> Append(calls,
                                      [tag |-> tag, dl |-> dl, err |-> R.err,
                                       work |-> R.work,
                                       dir |-> IF tag = NoTag THEN "absent"
                                               ELSE R.w.rel[tag]])]
    /\ UNCHANGED <<resultsDir, uiPc, uiRet, uiCalls>>
    /\ UNCHANGED rtVars

(***************************************************************************)
(* parseAnalytics on a text (service.go:645-707).  A text is a sequence of *)
(* lines, a line a sequence of tokens: a run of white space, a word, or a  *)
(* result pattern, i.e. the text one of the two regular expressions        *)
(* matches after the name: " : HTTP OK: d, ERR: x, UNSUP: d, Ping OK: d,   *)
(* Fail: y" (std) or " : OK: d, FAIL: x, UNSUP: d, BLOCKED: y" (dpi), x    *)
(* and y being digit strings.                                              *)
(***************************************************************************)
Tok(t, str, x, y) == [t |-> t, s |-> str, x |-> x, y |-> y]

Sp == Tok("sp", " ", "", "")
Word(str) == Tok("txt", str, "", "")
BestPrefix == Word("Best strategy:")
Marker == Word("=== ANALYTICS ===")

\* atoi (service.go:709-712) on the digit strings used here.
atoi(d) == CASE d \in {"0", "00"} -> 0 [] d = "1" -> 1

\* Trimming that leaves the white space at the end.
TrimSpaceLeft(seq) ==
    LET solid == {i \in 1..Len(seq) : seq[i].t # "sp"}
    IN  IF solid = {} THEN <<>>
        ELSE SubSeq(seq, CHOOSE i \in solid : \A j \in solid : i <= j, Len(seq))

\* strings.TrimSpace
TrimSpace(seq) ==
    LET solid == {i \in 1..Len(seq) : seq[i].t # "sp"}
    IN  IF solid = {} THEN <<>>
        ELSE SubSeq(seq, CHOOSE i \in solid : \A j \in solid : i <= j,
                         CHOOSE i \in solid : \A j \in solid : j <= i)

\* Where `^(.*) <pattern>` matches in a trimmed line: the index of the last
\* pattern of that form, 0 when there is none.  A pattern that opens the
\* trimmed line has lost its leading blank and does not match.
FindSubmatch(line, form) ==
    LET at == {i \in 2..Len(line) : line[i].t = form}
    IN  IF at = {} THEN 0 ELSE CHOOSE i \in at : \A j \in at : j <= i

\* A standard-form result decided on the error count alone.
StdResultErrOnly(name, tok) ==
    [name |-> name, httpErr |-> atoi(tok.x), pingFail |-> atoi(tok.y),
     fail |-> 0, blocked |-> 0,
     status |-> IF atoi(tok.x) = 0 THEN "ok" ELSE "fail"]

\* service.go:668-681
StdResult(name, tok) ==
    [name |-> name, httpErr |-> atoi(tok.x), pingFail |-> atoi(tok.y),
     fail |-> 0, blocked |-> 0,
     status |-> IF atoi(tok.x) = 0 /\ atoi(tok.y) = 0 THEN "ok" ELSE "fail"]

\* service.go:685-697
DpiResult(name, tok) ==
    [name |-> name, httpErr |-> 0, pingFail |-> 0,
     fail |-> atoi(tok.x), blocked |-> atoi(tok.y),
     status |-> IF atoi(tok.x) = 0 /\ atoi(tok.y) = 0 THEN "ok" ELSE "fail"]

\* results[name] = res
\* A map store that would keep the entry a name already has.
PutIfAbsent(results, res) ==
    IF \E e \in results : e.name = res.name THEN results ELSE results \cup {res}

Put(results, res) == {e \in results : e.name # res.name} \cup {res}

\* The loop body without the summary form.
parseLineStdOnly(acc, raw) ==
    LET line == TrimSpace(raw)
        std == FindSubmatch(line, "std")
    IN  IF line = <<Marker>> THEN acc
        ELSE IF Len(line) > 0 /\ line[1] = BestPrefix
             THEN [acc EXCEPT !.best = TrimSpace(Tail(line))]
        ELSE IF line = <<>> THEN acc
        ELSE IF std # 0
             THEN [acc EXCEPT !.results =
                      Put(@, StdResult(TrimSpace(SubSeq(line, 1, std - 1)),
                                       line[std]))]
        ELSE acc

\* The loop body (service.go:654-702) on one raw line.
parseLine(acc, raw) ==
    LET line == TrimSpace(raw)
        std == FindSubmatch(line, "std")
        dpi == FindSubmatch(line, "dpi")
    IN  IF line = <<Marker>> THEN acc
        ELSE IF Len(line) > 0 /\ line[1] = BestPrefix
             THEN [acc EXCEPT !.best = TrimSpace(Tail(line))]
        ELSE IF line = <<>> THEN acc
        ELSE IF std # 0
             THEN [acc EXCEPT !.results =
                      Put(@, StdResult(TrimSpace(SubSeq(line, 1, std - 1)),
                                       line[std]))]
        ELSE IF dpi # 0
             THEN [acc EXCEPT !.results =
                      Put(@, DpiResult(TrimSpace(SubSeq(line, 1, dpi - 1)),
                                       line[dpi]))]
        ELSE acc

RECURSIVE parseLines(_, _)
parseLines(acc, lines) ==
    IF Len(lines) = 0 THEN acc
    ELSE parseLines(parseLine(acc, Head(lines)), Tail(lines))

\* parseAnalytics on the lines of a text.
parseAnalyticsText(lines) ==
    LET acc == parseLines([results |-> {}, best |-> <<>>], lines)
    IN  IF acc.results = {} THEN [err |-> TRUE, Results |-> {}, Best |-> <<>>]
        ELSE [err |-> FALSE, Results |-> acc.results, Best |-> acc.best]

\* The raw lines of the texts: optional leading white space, a first word,
\* optional white space, an optional result pattern, an optional last word.
NoPattern == Tok("none", "", "", "")
Patterns == {Tok(f, "", x, y) : f \in {"std", "dpi"}, x \in {"0", "1"}, y \in {"00", "1"}}
RawLines ==
    [lead : BOOLEAN, head : {"", "a", "b", BestPrefix.s, Marker.s},
     gap : BOOLEAN, tail : {NoPattern} \cup Patterns, rest : {"", "x"}]

Tokens(l) ==
    (IF l.lead THEN <<Sp>> ELSE <<>>)
      \o (IF l.head = "" THEN <<>> ELSE <<Word(l.head)>>)
      \o (IF l.gap THEN <<Sp>> ELSE <<>>)
      \o (IF l.tail = NoPattern THEN <<>> ELSE <<l.tail>>)
      \o (IF l.rest = "" THEN <<>> ELSE <<Word(l.rest)>>)

\* strings.Split(content, "\n")
Split(content) == [i \in 1..Len(content) |-> Tokens(content[i])]

\* Raw lines without leading white space or a last word, with one pattern
\* of each outcome.
PlainLines ==
    {l \in RawLines :
        /\ ~l.lead
        /\ l.rest = ""
        /\ l.tail \in {NoPattern, Tok("std", "", "0", "00"), Tok("dpi", "", "1", "00")}}

Contents ==
    UNION {[1..n -> RawLines] : n \in 0..MaxContent}
      \cup UNION {[1..n -> PlainLines] : n \in (MaxContent + 1)..MaxPlain}

(***************************************************************************)
(* listStrategies (service.go:371-395).  A file name is the sequence of    *)
(* its bytes; strings compare byte by byte.                                *)
(***************************************************************************)
\* "general1.bat"
general1_bat ==
    <<103, 101, 110, 101, 114, 97, 108, 49, 46, 98, 97, 116>>
\* "general2.BAT"
general2_BAT ==
    <<103, 101, 110, 101, 114, 97, 108, 50, 46, 66, 65, 84>>
\* "GENERAL3.bat"
GENERAL3_bat ==
    <<71, 69, 78, 69, 82, 65, 76, 51, 46, 98, 97, 116>>
\* "service.bat"
service_bat ==
    <<115, 101, 114, 118, 105, 99, 101, 46, 98, 97, 116>>
\* "SERVICE.BAT"
SERVICE_BAT ==
    <<83, 69, 82, 86, 73, 67, 69, 46, 66, 65, 84>>
\* "readme.txt"
readme_txt ==
    <<114, 101, 97, 100, 109, 101, 46, 116, 120, 116>>
\* "general.txt"
general_txt ==
    <<103, 101, 110, 101, 114, 97, 108, 46, 116, 120, 116>>
\* "xgeneral.bat"
xgeneral_bat ==
    <<120, 103, 101, 110, 101, 114, 97, 108, 46, 98, 97, 116>>
\* "general"
general ==
    <<103, 101, 110, 101, 114, 97, 108>>

\* "general", ".bat", "service"
PrefixGeneral == <<103, 101, 110, 101, 114, 97, 108>>
SuffixBat == <<46, 98, 97, 116>>
PrefixService == <<115, 101, 114, 118, 105, 99, 101>>

FileNames ==
    {general1_bat, general2_BAT, GENERAL3_bat, service_bat, SERVICE_BAT,
     readme_txt, general_txt, xgeneral_bat, general}

\* strings.ToLower on ASCII
ToLower(name) ==
    [i \in 1..Len(name) |-> IF name[i] >= 65 /\ name[i] <= 90 THEN name[i] + 32 ELSE name[i]]

HasPrefix(name, prefix) ==
    Len(name) >= Len(prefix) /\ SubSeq(name, 1, Len(prefix)) = prefix

HasSuffix(name, suffix) ==
    /\ Len(name) >= Len(suffix)
    /\ SubSeq(name, Len(name) - Len(suffix) + 1, Len(name)) = suffix

\* a < b on strings
Less(a, b) ==
    \E i \in 1..(Len(a) + 1) :
        /\ i <= Len(b)
        /\ \A j \in 1..(i - 1) : a[j] = b[j]
        /\ (i = Len(a) + 1 \/ a[i] < b[i])

\* sort.Slice(res, func(i, j int) bool { return res[i].Name < res[j].Name })
RECURSIVE SortByName(_)
SortByName(res) ==
    IF res = {} THEN <<>>
    ELSE LET first == CHOOSE r \in res : \A q \in res \ {r} : Less(r.Name, q.Name)
         IN  <<first>> \o SortByName(res \ {first})

\* The filter with the extension compared as written.
KeptExactSuffix(e) ==
    /\ ~e.isDir
    /\ ~HasPrefix(ToLower(e.name), PrefixService)
    /\ HasSuffix(e.name, SuffixBat)
    /\ HasPrefix(ToLower(e.name), PrefixGeneral)

\* service.go:383-386
Kept(e) ==
    /\ ~e.isDir
    /\ ~HasPrefix(ToLower(e.name), PrefixService)
    /\ HasSuffix(ToLower(e.name), SuffixBat)
    /\ HasPrefix(ToLower(e.name), PrefixGeneral)

\* listStrategies for the release path `current` and the directory there:
\* [exists, entries], entries a set of [name, isDir].
listStrategies(current, dir) ==
    IF current = NoTag THEN [res |-> <<>>, err |-> ""]
    ELSE IF ~dir.exists THEN [res |-> <<>>, err |-> "readdir"]
    ELSE [res |-> SortByName({[Name |-> e.name, File |-> <<current, e.name>>] :
                                 e \in {d \in dir.entries : Kept(d)}}),
          err |-> ""]

\* The directories listStrategies is called on: no two entries of a name.
Directories ==
    UNION {{[exists |-> x, entries |-> {[name |-> n, isDir |-> n \in ds] : n \in ns}] :
               x \in BOOLEAN, ds \in SUBSET ns} :
           ns \in {f \in SUBSET FileNames : Cardinality(f) <= MaxEntries}}

\* The record of a handler's calls: how many were made and the last one.
Calls(fn) == IF probe.fn = fn THEN probe.n ELSE 0

CallFrame ==
    /\ UNCHANGED <<resultsDir, uiPc, uiRet, uiCalls>>
    /\ UNCHANGED rtVars

\* What tasklist can answer about the tracked pid: it shows the pid only
\* when a process has it, and shows nothing when the query fails.  The pid
\* is in use whenever the tracked strategy process is alive.
PidStates ==
    {ps \in [pidAlive : BOOLEAN, listed : BOOLEAN] :
        /\ alive => ps.pidAlive
        /\ ps.listed => ps.pidAlive}

\* State (service.go:199-245), recorded with the outcome of its tag lookup,
\* the entry recorded and the pid's state when the read began, and the
\* snapshot returned (None with the load error).
CallState ==
    /\ probe.fn \in {"none", "State"}
    /\ Calls("State") < MaxCalls
    /\ \E ld \in LoadChoices(World), ps \in PidStates, sv1 \in BOOLEAN,
          sv2 \in BOOLEAN, out \in TagOutcomes :
          LET L == loadConfig(World, ld)
              in == [sv1 |-> sv1, sv2 |-> sv2, listed |-> ps.listed]
              B == StateBody(L.w, in)
          IN  IF L.err
              THEN /\ Commit(L.w)
                   /\ probe' = [fn |-> "State", n |-> Calls("State") + 1,
                                call |-> [err |-> "load", state |-> None]]
              ELSE /\ Commit(B)
                   /\ probe' = [fn |-> "State", n |-> Calls("State") + 1,
                                call |-> [err |-> "", lookup |-> out,
                                          recorded |-> L.w.cfg.running,
                                          pidAlive |-> ps.pidAlive,
                                          state |-> StateSnapshot(B, out)]]
    /\ CallFrame

\* The version recorded before a call: the in-memory Config's, or the
\* document's while no Config is loaded.
RecordedVersion == IF config # None THEN config.version ELSE disk.version

\* CheckAndUpdate (service.go:280-300), recorded with the tag its lookup
\* resolved ("none" when loadConfig failed before it), the version, document version and releases tree before the
\* call, the error, the work done and whether a snapshot was returned.
CallCheckAndUpdate ==
    /\ probe.fn \in {"none", "CheckAndUpdate"}
    /\ Calls("CheckAndUpdate") < MaxCalls
    /\ \E ld \in LoadChoices(World), in \in UpdateInputs :
          LET L == loadConfig(World, ld)
              R == CheckAndUpdateBody(L.w, in)
              before == [lookup |-> IF L.err THEN "none" ELSE in.tag,
                         recorded |-> RecordedVersion,
                         diskVersion |-> disk.version, rel |-> releases]
          IN  IF L.err
              THEN /\ Commit(L.w)
                   /\ probe' = [fn |-> "CheckAndUpdate",
                                n |-> Calls("CheckAndUpdate") + 1,
                                call |-> [before |-> before, err |-> "load",
                                          loaded |-> "none",
                                          work |-> "none", state |-> FALSE]]
              ELSE /\ Commit(R.w)
                   /\ probe' = [fn |-> "CheckAndUpdate",
                                n |-> Calls("CheckAndUpdate") + 1,
                                call |-> [before |-> before, err |-> R.err,
                                          loaded |-> L.w.cfg.version,
                                          work |-> R.work,
                                          state |-> (R.err = "")]]
    /\ CallFrame

\* RunStrategy (service.go:832-885), recorded with the file, whether the
\* launcher ran (cmd.Run returned nil), the pid its output parsed to, the
\* error returned, and the RunningInfo the call stored (service.go:873-880).
CallRunStrategy ==
    /\ probe.fn \in {"none", "RunStrategy"}
    /\ Calls("RunStrategy") < MaxCalls
    /\ \E ld \in LoadChoices(World), stop \in StopInputs,
          file \in {StrategyFile, MissingFile}, in \in LaunchInputs :
          LET L == loadConfig(World, ld)
              R == RunStrategyLaunch(StopRunningBody(L.w, stop), file, in)
          IN  IF L.err
              THEN /\ Commit(L.w)
                   /\ probe' = [fn |-> "RunStrategy",
                                n |-> Calls("RunStrategy") + 1,
                                call |-> [file |-> file, ran |-> FALSE,
                                          pid |-> 0, err |-> "load",
                                          tracked |-> None]]
              ELSE /\ Commit(R.w)
                   /\ probe' = [fn |-> "RunStrategy",
                                n |-> Calls("RunStrategy") + 1,
                                call |-> [file |-> file,
                                          ran |-> R.err \notin
                                              {"no current release",
                                               "not found", "launch failed"},
                                          pid |-> in.pid, err |-> R.err,
                                          tracked |->
                                              IF R.err # "" THEN None
                                              ELSE RunStrategyTrack(
                                                       StopRunningBody(L.w, stop),
                                                       file, in).cfg.running]]
    /\ CallFrame

\* What os.WriteFile leaves on disk when the process dies inside it
\* (service.go:163): the file is opened with O_TRUNC and written in place,
\* so it is the old document (not yet opened), a cut one, or the new one.
InterruptedWrite(old, new) == {old, TornDoc, new}

\* The process dies inside the saveConfig that follows
\* `cfg.LastStrategy = ...` (service.go:882-883).  The Service is gone with
\* it; the next one starts with no Config in memory.
CrashInSave ==
    /\ probe.fn = "none"
    /\ ~IsTorn(disk)
    /\ \E ld \in LoadChoices(World) :
          LET L == loadConfig(World, ld)
              new == [L.w.cfg EXCEPT !.lastStrategy = StrategyFile]
          IN  /\ ~L.err
              /\ \E d \in InterruptedWrite(disk, new) :
                    /\ disk' = d
                    /\ saveLost' = (d # new)
                    /\ probe' = [fn |-> "saveConfig", n |-> 1,
                                 call |-> [old |-> disk, new |-> new,
                                           loaded |-> None]]
              /\ lastWrite' = new
              /\ releases' = L.w.rel
    /\ config' = None
    /\ UNCHANGED alive
    /\ CallFrame

\* The application is started again and loads its Config.
LoadAfterCrash ==
    /\ probe.fn = "saveConfig"
    /\ probe.n = 1
    /\ \E ld \in LoadChoices(World) :
          LET L == loadConfig(World, ld)
          IN  /\ ~L.err
              /\ Commit(L.w)
              /\ probe' = [probe EXCEPT !.n = 2, !.call.loaded = Unmarshal(disk)]
    /\ CallFrame

(***************************************************************************)
(* The initial state: the Service just constructed (service.go:96-110),    *)
(* the cache directory as an earlier session may have left it.             *)
(***************************************************************************)
\* A report directory holding the complete report of an earlier session.
StaleDir == [exists |-> TRUE, files |-> <<ReportFile(TRUE, 1, TRUE, 0)>>]

InitialDocs ==
    {Config(v, "", 0, EmptyResults, "", ru, FALSE) :
        v \in {NoTag, "v1"}, ru \in {None, RunningInfo(StrategyFile, 1)}}

Init ==
    /\ config = None
    /\ disk \in InitialDocs
    /\ lastWrite = None
    /\ saveLost = FALSE
    /\ \E r \in {"absent", "full"} : releases = [t \in Tags |-> IF t = "v1" THEN r ELSE "absent"]
    /\ resultsDir \in {[t \in Tags |-> IF t = "v1" THEN d ELSE NoDir] :
                            d \in IF releases["v1"] = "full"
                                  THEN {NoDir, StaleDir} ELSE {NoDir}}
    /\ alive \in (IF disk.running # None THEN BOOLEAN ELSE {FALSE})
    /\ uiPc = "idle"
    /\ uiRet = NoReturn
    /\ uiCalls = 0
    /\ rtPc = "idle"
    /\ rtRun = 0
    /\ rtCurrent = "v1"
    /\ rtLocals = NoLocals
    /\ rtKilled = FALSE
    /\ rtRet = [state |-> FALSE, err |-> "", path |-> ""]
    /\ rtGhost = NoGhost
    /\ ctx = "none"
    /\ watcher = "none"
    /\ resultCh = None
    /\ errCh = ""
    /\ harness = "none"
    /\ psDone = "empty"
    /\ probe = NoProbe

\* The Service driven by one caller, one operation at a time.
NextService ==
    \/ UiCall
    \/ UiState
    \/ UiCheckAndUpdate
    \/ UiStopRunning
    \/ UiStopState
    \/ UiRunStrategyStop
    \/ UiRunStrategyLaunch
    \/ StrategyExit

\* RunTests with its watcher, harness and deadline, no other caller.
NextTests ==
    \/ RtCall
    \/ RtLaunch
    \/ RtRecvResult
    \/ RtRecvWatchErr
    \/ RtRecvDone
    \/ RtCtxDone
    \/ RtGraceEnd
    \/ RtReconcile
    \/ Deadline
    \/ CmdCtxKill
    \/ HarnessExit
    \/ HarnessCreate
    \/ HarnessAppend
    \/ WatcherCtxDone
    \/ WatcherOrphanExit
    \/ WatcherReadDirErr
    \/ WatcherDeliver

\* A test run with the ui caller invoking operations while it is in flight.
NextConcurrent ==
    \/ UiCallDuringTests
    \/ UiState
    \/ UiStopRunning
    \/ UiStopState
    \/ StrategyExit
    \/ NextTests

SpecService == Init /\ [][NextService]_vars

SpecTests == Init /\ [][NextTests]_vars

SpecConcurrent == Init /\ [][NextConcurrent]_vars

\* A test run and a StopStrategy invoked at any moment before, during or
\* after it.
NextAbort ==
    \/ UiCallAbort
    \/ UiStopRunning
    \/ UiStopState
    \/ StrategyExit
    \/ NextTests

SpecAbort == Init /\ [][NextAbort]_vars

\* The steps of the goroutine that runs RunTests once it has started the
\* watcher.
Supervisor ==
    \/ RtLaunch
    \/ RtRecvResult
    \/ RtRecvWatchErr
    \/ RtRecvDone
    \/ RtCtxDone
    \/ RtGraceEnd
    \/ RtReconcile

\* The steps of the watcher goroutine.
Watcher ==
    \/ WatcherCtxDone
    \/ WatcherReadDirErr
    \/ WatcherDeliver
    \/ WatcherOrphanExit

\* Fair scheduling of a test run: the supervisor goroutine and the watcher
\* goroutine run when they can take a step, and the timer of the context
\* fires.  Nothing is assumed of the harness.
FairTests ==
    /\ WF_vars(Supervisor)
    /\ WF_vars(Watcher)
    /\ WF_vars(Deadline)

\* The Service just constructed on a cache that holds release v1 with the
\* harness script and records no running strategy.
InitReady ==
    /\ Init
    /\ disk = Config("v1", "", 0, EmptyResults, "", None, FALSE)
    /\ releases["v1"] = "full"

SpecTestsFair == InitReady /\ [][NextTests]_vars /\ FairTests

(***************************************************************************)
(* The host process dies while RunTests is in flight and is started again. *)
(* Everything held in memory is lost (s.config, the supervisor's locals,   *)
(* the context, the watcher goroutine, the channels); config.json and the  *)
(* results directory stay as they are.  The harness, no longer a child of  *)
(* a living supervisor, is not followed further.                           *)
(***************************************************************************)
HostCrash ==
    /\ rtPc \in {"launch", "wait", "grace", "reconcile"}
    /\ config' = None
    /\ rtPc' = "idle"
    /\ RtReturn(FALSE, "", "crash")
    /\ rtLocals' = NoLocals
    /\ ctx' = "none"
    /\ watcher' = "none"
    /\ resultCh' = None
    /\ errCh' = ""
    /\ harness' = "none"
    /\ psDone' = "empty"
    /\ UNCHANGED <<disk, lastWrite, saveLost, releases, resultsDir, alive, uiPc,
                   uiRet, uiCalls, rtRun, rtCurrent, rtKilled, rtGhost, probe>>

\* The first loadConfig of the restarted process (service.go:130-153).
LoadAfterRestart ==
    /\ rtPc = "idle"
    /\ rtRet.path = "crash"
    /\ config = None
    /\ \E ld \in LoadChoices(World) : Commit(loadConfig(World, ld).w)
    /\ UNCHANGED <<resultsDir, uiPc, uiRet, uiCalls, probe>>
    /\ UNCHANGED rtVars

\* The application is closed between two operations and started again: the
\* in-memory Config is gone, the document and the launched strategy (a
\* detached process) stay.
HostRestart ==
    /\ uiPc = "idle"
    /\ rtPc = "idle"
    /\ config # None
    /\ config' = None
    /\ UNCHANGED <<disk, lastWrite, saveLost, releases, resultsDir, alive, uiPc,
                   uiRet, uiCalls, probe>>
    /\ UNCHANGED rtVars

NextRestart ==
    \/ NextService
    \/ HostRestart

SpecRestart == InitReady /\ [][NextRestart]_vars

NextCrash ==
    \/ NextTests
    \/ HostCrash
    \/ LoadAfterRestart

SpecCrash == InitReady /\ [][NextCrash]_vars

\* Single functions called on the Service, nothing else running.
\* parseAnalytics(content) is called on the text drawn at the start.
CallParseAnalytics ==
    /\ probe.fn = "parseAnalytics"
    /\ probe.n = 0
    /\ probe' = [probe EXCEPT !.n = 1,
                               !.call.out = parseAnalyticsText(Split(probe.call.content))]
    /\ UNCHANGED <<config, disk, lastWrite, saveLost, releases, alive>>
    /\ CallFrame

\* s.listStrategies() is called on the release and directory drawn at the
\* start.
CallListStrategies ==
    /\ probe.fn = "listStrategies"
    /\ probe.n = 0
    /\ probe' = [probe EXCEPT !.n = 1,
                               !.call.out = listStrategies(probe.call.current,
                                                           probe.call.dir)]
    /\ UNCHANGED <<config, disk, lastWrite, saveLost, releases, alive>>
    /\ CallFrame

NextCalls ==
    \/ CallUnpack
    \/ CallState
    \/ CallCheckAndUpdate
    \/ CallRunStrategy
    \/ CrashInSave
    \/ LoadAfterCrash

SpecCalls == Init /\ [][NextCalls]_vars

\* The inputs of the functions that are called on their own.
ParseInputs ==
    {[fn |-> "parseAnalytics", n |-> 0, call |-> [content |-> c, out |-> None]] :
        c \in Contents}

ListInputs ==
    {[fn |-> "listStrategies", n |-> 0,
      call |-> [current |-> cur, dir |-> d, out |-> None]] :
        cur \in {NoTag, "v1"}, d \in Directories}

\* A Service at rest and one input drawn for one function.
InitPure ==
    /\ config = None
    /\ disk = DefaultConfig
    /\ lastWrite = None
    /\ saveLost = FALSE
    /\ releases = [t \in Tags |-> "absent"]
    /\ resultsDir = [t \in Tags |-> NoDir]
    /\ alive = FALSE
    /\ uiPc = "idle"
    /\ uiRet = NoReturn
    /\ uiCalls = 0
    /\ rtPc = "idle"
    /\ rtRun = 0
    /\ rtCurrent = "v1"
    /\ rtLocals = NoLocals
    /\ rtKilled = FALSE
    /\ rtRet = [state |-> FALSE, err |-> "", path |-> ""]
    /\ rtGhost = NoGhost
    /\ ctx = "none"
    /\ watcher = "none"
    /\ resultCh = None
    /\ errCh = ""
    /\ harness = "none"
    /\ psDone = "empty"
    /\ (probe \in ParseInputs \/ probe \in ListInputs)

NextPure ==
    \/ CallParseAnalytics
    \/ CallListStrategies

SpecPure == InitPure /\ [][NextPure]_vars

(***************************************************************************)
(* loadConfig (service.go:130-153) called from several goroutines, one     *)
(* statement group at a time.  The Service holds no lock: the nil check of *)
(* s.config, the construction of a Config and the assignment to s.config   *)
(* are separate steps of each caller.  `probe` holds the Config instances  *)
(* created so far (heap), the instance s.config points at (sconfig, 0 for  *)
(* nil), and per caller its position and the instance it works on (0 for   *)
(* none).  The variable `config` is the content of the instance s.config   *)
(* points at.  After loadConfig a caller sets a field through the Config   *)
(* it was given and calls saveConfig, as RunTests and RunStrategy do.      *)
(***************************************************************************)
Callers == 1..MaxCallers

NoLoads ==
    [fn |-> "loadConfig", heap |-> <<>>, sconfig |-> 0,
     pc |-> [c \in Callers |-> "idle"], cfg |-> [c \in Callers |-> 0]]

Loads == IF probe.fn = "loadConfig" THEN probe ELSE NoLoads

\* The content of s.config after the heap or the pointer changed.
Shared(heap, sconfig) == IF sconfig = 0 THEN None ELSE heap[sconfig]

\* A goroutine enters loadConfig.
LoadEnter(c) ==
    /\ probe.fn \in {"none", "loadConfig"}
    /\ Loads.pc[c] = "idle"
    /\ probe' = [Loads EXCEPT !.pc[c] = "check"]
    /\ UNCHANGED <<config, disk, lastWrite, saveLost, releases, alive>>
    /\ CallFrame

\* service.go:131-133: `if s.config != nil { return s.config, nil }`
LoadCheck(c) ==
    /\ probe.fn = "loadConfig"
    /\ probe.pc[c] = "check"
    /\ probe' = IF probe.sconfig # 0
                THEN [probe EXCEPT !.pc[c] = "loaded", !.cfg[c] = probe.sconfig]
                ELSE [probe EXCEPT !.pc[c] = "build"]
    /\ UNCHANGED <<config, disk, lastWrite, saveLost, releases, alive>>
    /\ CallFrame

\* service.go:134-150: ensureDirs, a new Config filled from the document,
\* the version seeded from the bundled release; `cfg` is still a local.
LoadBuild(c) ==
    /\ probe.fn = "loadConfig"
    /\ probe.pc[c] = "build"
    /\ LET W0 == [World EXCEPT !.cfg = None]
       IN  \E in \in LoadChoices(W0) :
              LET L == loadConfig(W0, in)
              IN  IF L.err
                  THEN /\ probe' = [probe EXCEPT !.pc[c] = "failed"]
                       /\ UNCHANGED <<config, disk, lastWrite, saveLost,
                                      releases, alive>>
                  ELSE /\ probe' = [probe EXCEPT
                                        !.heap = Append(@, L.w.cfg),
                                        !.cfg[c] = Len(probe.heap) + 1,
                                        !.pc[c] = "store"]
                       /\ Commit([L.w EXCEPT !.cfg = config])
    /\ CallFrame

\* service.go:151-152: `s.config = cfg; return cfg, nil`
LoadStore(c) ==
    /\ probe.fn = "loadConfig"
    /\ probe.pc[c] = "store"
    /\ probe' = [probe EXCEPT !.sconfig = probe.cfg[c], !.pc[c] = "loaded"]
    /\ config' = probe.heap[probe.cfg[c]]
    /\ UNCHANGED <<disk, lastWrite, saveLost, releases, alive>>
    /\ CallFrame

\* The caller sets a field of the Config loadConfig returned to it (as
\* service.go:495 `cfg.LastTestAt = time.Now()`); the time is the caller's
\* number.
LoadMutate(c) ==
    /\ probe.fn = "loadConfig"
    /\ probe.pc[c] = "loaded"
    /\ LET heap == [probe.heap EXCEPT ![probe.cfg[c]].lastTestAt = c]
       IN  /\ probe' = [probe EXCEPT !.heap = heap, !.pc[c] = "mutated"]
           /\ config' = Shared(heap, probe.sconfig)
    /\ UNCHANGED <<disk, lastWrite, saveLost, releases, alive>>
    /\ CallFrame

\* The caller's saveConfig (service.go:155-164), which writes *s.config.
LoadSave(c) ==
    /\ probe.fn = "loadConfig"
    /\ probe.pc[c] = "mutated"
    /\ \E ok \in BOOLEAN : Commit(saveConfig(World, ok))
    /\ probe' = [probe EXCEPT !.pc[c] = "saved"]
    /\ CallFrame

NextLoad ==
    \/ \E c \in Callers : LoadEnter(c)
    \/ \E c \in Callers : LoadCheck(c)
    \/ \E c \in Callers : LoadBuild(c)
    \/ \E c \in Callers : LoadStore(c)
    \/ \E c \in Callers : LoadMutate(c)
    \/ \E c \in Callers : LoadSave(c)

SpecLoad == Init /\ [][NextLoad]_vars

Next ==
    \/ UiCall
    \/ UiState
    \/ UiCheckAndUpdate
    \/ UiStopRunning
    \/ UiStopState
    \/ UiRunStrategyStop
    \/ UiRunStrategyLaunch
    \/ StrategyExit
    \/ RtCall
    \/ RtLaunch
    \/ RtRecvResult
    \/ RtRecvWatchErr
    \/ RtRecvDone
    \/ RtCtxDone
    \/ RtGraceEnd
    \/ RtReconcile
    \/ Deadline
    \/ CmdCtxKill
    \/ HarnessExit
    \/ HarnessCreate
    \/ HarnessAppend
    \/ WatcherCtxDone
    \/ WatcherOrphanExit
    \/ WatcherReadDirErr
    \/ WatcherDeliver
    \/ CallUnpack
    \/ CallState
    \/ CallCheckAndUpdate
    \/ CallRunStrategy
    \/ CrashInSave
    \/ LoadAfterCrash
    \/ CallParseAnalytics
    \/ CallListStrategies
    \/ UiCallAbort
    \/ NextLoad
    \/ HostCrash
    \/ LoadAfterRestart
    \/ HostRestart

Spec == Init /\ [][Next]_vars

(***************************************************************************)
(* Properties.                                                             *)
(***************************************************************************)
\* StopRunning has just returned nil: to App.StopStrategy or to RunStrategy.
StopRunningReturned == uiPc \in {"StopStrategy.State", "RunStrategy.launch"}

\* StopRunning has returned the loadConfig error to App.StopStrategy.
StopRunningFailed ==
    uiPc = "idle" /\ uiRet = [op |-> "StopStrategy", err |-> "load"]

\* C1, as stated: whenever StopRunning returns, `running` is absent both in
\* the in-memory Config and in the persisted document, config saves being
\* allowed to fail.
C1_RunningAbsentEverywhere ==
    (StopRunningReturned \/ StopRunningFailed) =>
        /\ config # None => config.running = None
        /\ disk.running = None

\* C1, amended: whenever StopRunning returns without error, `running` is
\* absent in the in-memory Config, and absent in the persisted document
\* unless a save has failed since the last one that succeeded; when it
\* returns the load error there is no in-memory Config and nothing was
\* written.
C1_RunningAbsentInMemory ==
    /\ StopRunningReturned =>
          /\ config # None
          /\ config.running = None
          /\ ~saveLost => disk.running = None
    /\ StopRunningFailed => (config = None /\ lastWrite = None)

\* A strategy was launched and recorded, and a later StopRunning has returned
\* with the entry cleared in memory and on disk.
C1_Witness ==
    /\ uiPc = "StopStrategy.State"
    /\ disk.lastStrategy = StrategyFile
    /\ config.running = None
    /\ disk.running = None
    /\ ~saveLost

\* RunTests is between its loadConfig and its last saveConfig: it holds the
\* Config and writes its fields (service.go:398-496).
RunTestsInSection == rtPc \in {"launch", "wait", "grace", "reconcile"}

\* A step of State or StopRunning run by the ui caller.
UiSectionStep == UiState \/ UiStopRunning \/ UiStopState

\* C2: no two invocations of the public operations are inside their Config
\* read-modify-write section at the same time: while RunTests is inside its
\* section, no State or StopRunning invocation runs its own.
C2_MutualExclusion == [][RunTestsInSection => ~UiSectionStep]_vars

\* RunTests has returned from an invocation that passed its preconditions.
RunTestsReturned == rtPc = "idle" /\ rtRet.path \in {"launch failed", "loop"}

\* C3: on every return path of a RunTests invocation that passed its
\* preconditions, the Config has testInProgress false and the document last
\* handed to the writer carries the cleared flag.
C3_TestInProgressCleared ==
    RunTestsReturned =>
        /\ config.testInProgress = FALSE
        /\ lastWrite # None
        /\ lastWrite.testInProgress = FALSE

\* RunTests returned through each kind of path: here after the deadline, with
\* the flag cleared although the last save failed.
C3_Witness ==
    /\ RunTestsReturned
    /\ rtRet.err = "deadline"
    /\ config.testInProgress = FALSE
    /\ lastWrite.testInProgress = FALSE
    /\ saveLost

\* C4: when the deadline expires in the wait loop before a parsed result has
\* been delivered, killProcessTree is called on the harness before RunTests
\* returns and the error returned is the deadline error.
C4_DeadlineKillsAndTimesOut ==
    (RunTestsReturned /\ rtGhost.expired = "waiting") =>
        /\ rtKilled
        /\ rtRet.err = "deadline"

\* C5: when the watcher delivers a parsed result during the grace period
\* after a failed exit, RunTests takes that result: it is the parsed result
\* the reconciliation works from and no failure is returned.
C5_GraceResultUsed ==
    (RunTestsReturned /\ rtGhost.graceResult) =>
        /\ rtLocals.parsed # None
        /\ rtRet.err = ""

\* C6: whenever the supervisor has received a parsed result, killProcessTree
\* has been called on the harness by the time it reconciles and returns.
C6_ResultKillsHarness ==
    (rtPc \in {"reconcile", "idle"} /\ rtLocals.parsed # None) => rtKilled

\* The supervisor received a result while the harness was still running and
\* the deadline had not expired; the harness was ended by killProcessTree.
C6_Witness ==
    /\ rtPc = "reconcile"
    /\ rtLocals.parsed # None
    /\ rtLocals.cmdErr = ""
    /\ rtKilled
    /\ harness = "killed"
    /\ ctx = "live"

\* C7: a result delivered by a RunTests invocation is parsed from a report
\* written by that invocation's harness, never from a report an earlier run
\* left behind, even when the directory could not be deleted.
C7_ResultIsFresh ==
    /\ resultCh # None => resultCh.Results.run = rtRun
    /\ rtLocals.parsed # None => rtLocals.parsed.Results.run = rtRun

\* A RunTests invocation returns or proceeds past its preconditions.
RunTestsCallStep == rtPc = "idle" /\ (rtPc' # rtPc \/ rtRet' # rtRet)

\* The Config the invocation loaded names no release, or one without the
\* harness script.
NoUsableRelease ==
    /\ config' # None
    /\ config'.version = NoTag \/ releases'[config'.version] # "full"

PriorityError(l) ==
    IF l.watchErr # "" THEN l.watchErr
    ELSE IF l.cmdErr # "" THEN l.cmdErr
    ELSE "not found"

\* C9: when RunTests ends without a successful parse it returns a State
\* snapshot and the watcher error if there is one, else the process error if
\* there is one, else the generic not-found error; a harness that could not
\* be started is returned as the process error it is.
C9_ErrorPriority ==
    /\ (RunTestsReturned /\ rtRet.path = "loop" /\ rtLocals.parsed = None) =>
          /\ rtRet.state
          /\ rtRet.err = PriorityError(rtLocals)
    /\ (RunTestsReturned /\ rtRet.path = "launch failed") =>
          /\ rtRet.state
          /\ rtRet.err = "start"

\* RunTests returned the watcher's deadline error, the harness's exit having
\* been received as a success before.
C9_Witness ==
    /\ RunTestsReturned
    /\ rtRet.path = "loop"
    /\ rtLocals.parsed = None
    /\ rtLocals.watchErr = "deadline"
    /\ rtLocals.cmdErr = ""
    /\ rtRet = [state |-> TRUE, err |-> "deadline", path |-> "loop"]

\* The errors of the steps before the version is recorded.
UpdateStepErrors ==
    {"latest tag", "tag empty", "dirs", "net", "http", "archive", "extract"}

\* C10: a CheckAndUpdate that fails at the tag lookup, the download, the HTTP
\* status, the archive parsing or the extraction leaves the persisted version
\* and the in-memory version as they were (the in-memory one being what
\* loadConfig yields when no Config was loaded before).
C10_FailedUpdateKeepsVersion ==
    [][(uiPc = "CheckAndUpdate" /\ uiPc' = "idle" /\ uiRet'.err \in UpdateStepErrors) =>
          /\ disk'.version = disk.version
          /\ config # None => config'.version = config.version
          /\ config = None => config'.version \in {disk.version, BundledTag}]_vars

\* A CheckAndUpdate failed while extracting v2 and the version is still v1.
C10_Witness ==
    /\ uiPc = "idle"
    /\ uiRet = [op |-> "CheckAndUpdate", err |-> "extract"]
    /\ releases["v2"] = "partial"
    /\ config.version = "v1"
    /\ disk.version = "v1"

\* Two downloadAndUnpack calls have been made, one after the other, with the
\* same tag.
TwoUnpackCalls ==
    /\ probe.fn = "downloadAndUnpack"
    /\ Len(probe.calls) = 2
    /\ probe.calls[1].tag = probe.calls[2].tag

\* C11, as stated: two consecutive downloadAndUnpack(tag) calls do the
\* download and extraction work at most once in total, and the second call
\* returns success without doing any work.
C11_SecondCallIsNoOp ==
    TwoUnpackCalls =>
        /\ probe.calls[1].work = "none" \/ probe.calls[2].work = "none"
        /\ probe.calls[2].err = ""
        /\ probe.calls[2].work = "none"

\* C11, amended: when the tag's directory exists after the first call, the
\* second call returns success without doing any work and leaves the
\* directory as it is, so the work is done at most once; when it does not
\* exist and ensureDirs succeeds, the second call issues the request again.
C11_SecondCallIsNoOpOnceUnpacked ==
    TwoUnpackCalls =>
        /\ probe.calls[1].dir # "absent" =>
              /\ probe.calls[2].err \in {"", "dirs"}
              /\ probe.calls[2].work = "none"
              /\ probe.calls[2].dir = probe.calls[1].dir
        /\ (/\ probe.calls[1].dir = "absent"
            /\ probe.calls[1].tag # NoTag
            /\ probe.calls[2].dl # "dirs") => probe.calls[2].work # "none"

\* The first call downloaded and unpacked v2, the second found the directory
\* and did nothing.
C11_Witness ==
    /\ TwoUnpackCalls
    /\ probe.calls[1].tag = "v2"
    /\ probe.calls[1].work = "unzip"
    /\ probe.calls[1].err = ""
    /\ probe.calls[2].dl = "ok"
    /\ probe.calls[2].work = "none"
    /\ probe.calls[2].err = ""
    /\ releases["v2"] = "full"

\* A State call has returned a snapshot.
StateReturned ==
    probe.fn = "State" /\ probe.call.err = "" /\ probe.call.state # None

\* C12: in every State snapshot hasUpdate is true exactly when the latest tag
\* obtained for that read is non-empty and differs from Config.version; when
\* the lookup fails latestTag is empty and hasUpdate is false.
C12_HasUpdateIffNewTag ==
    StateReturned =>
        LET st == probe.call.state
        IN  /\ st.version = config.version
            /\ st.hasUpdate <=> (st.latestTag # NoTag /\ st.latestTag # config.version)
            /\ probe.call.lookup # "err" => st.latestTag = probe.call.lookup
            /\ probe.call.lookup = "err" => (st.latestTag = NoTag /\ ~st.hasUpdate)

\* A read whose lookup found v2 while v1 is recorded reports an update.
C12_Witness ==
    /\ StateReturned
    /\ probe.call.lookup = "v2"
    /\ config.version = "v1"
    /\ probe.call.state.hasUpdate

\* A CheckAndUpdate call whose lookup resolved a non-empty tag equal to the
\* version recorded before it.
UpToDateCall ==
    /\ probe.fn = "CheckAndUpdate"
    /\ probe.call.before.lookup \notin {"none", "err", NoTag}
    /\ probe.call.before.lookup = probe.call.before.recorded

\* C13: when the resolved tag is non-empty and equals the recorded version,
\* CheckAndUpdate downloads and extracts nothing, leaves the version and the
\* releases tree as they were and returns a snapshot; the document's version
\* is as before or, when the read that builds the snapshot saves, the
\* recorded one.
C13_UpToDateIsNoOp ==
    UpToDateCall =>
        /\ probe.call.work = "none"
        /\ probe.call.err = ""
        /\ probe.call.state
        /\ config.version = probe.call.before.recorded
        /\ disk.version \in {probe.call.before.diskVersion,
                             probe.call.before.recorded}
        /\ releases = probe.call.before.rel

\* v1 is recorded but its directory is gone; the lookup resolves v1 and the
\* call returns a snapshot without fetching it.
C13_Witness ==
    /\ UpToDateCall
    /\ probe.call.before.lookup = "v1"
    /\ releases["v1"] = "absent"
    /\ probe.call.work = "none"
    /\ probe.call.state

\* A State call has returned that began with a RunningInfo recorded.
StateReadTracked == StateReturned /\ probe.call.recorded # None

\* C14: for every State read performed while a RunningInfo is recorded, if
\* the tracked pid is not alive the read sets `running` to absent, saves, and
\* returns a snapshot without a running entry; if the pid is alive, `running`
\* is left as it was.
C14_StalePidSelfHeals ==
    StateReadTracked =>
        /\ ~probe.call.pidAlive =>
              /\ config.running = None
              /\ probe.call.state.running = None
              /\ lastWrite # None
              /\ lastWrite.running = None
        /\ probe.call.pidAlive =>
              /\ config.running = probe.call.recorded
              /\ probe.call.state.running = probe.call.recorded

\* C15: RunStrategy returns a launch error whenever the launcher ran but its
\* output does not parse to a positive pid; it never reports success then.
C15_NoPidIsLaunchError ==
    (probe.fn = "RunStrategy" /\ probe.call.ran /\ probe.call.pid <= 0) =>
        probe.call.err # ""

\* C16: at every instant, a crash inside saveConfig included, the document on
\* disk is the complete document saved before or the complete new one; a
\* later loadConfig never reads a cut one.
C16_DocumentNeverTorn ==
    /\ ~IsTorn(disk)
    /\ (probe.fn = "saveConfig" /\ probe.call.loaded # None) =>
          probe.call.loaded \in {probe.call.old, probe.call.new}


\* parseAnalytics has returned for the text it was given.
ParseReturned == probe.fn = "parseAnalytics" /\ probe.n = 1

\* A raw line the text shows as a result line: a name that does not open
\* with "Best strategy:", then one of the two result patterns.
ResultLine(l) == l.tail # NoPattern /\ l.head \notin {"", BestPrefix.s}

\* A digit string that denotes zero.
Zero(d) == d \in {"0", "00"}

\* C17: every result line parseAnalytics recognises gets the status "ok"
\* exactly when both of its failure counts are zero (ERR and Ping Fail on
\* a standard line, FAIL and BLOCKED on a summary line) and "fail"
\* otherwise.  The entry of a name is that of its last line.
C17_StatusFollowsFailureCounts ==
    ParseReturned =>
        LET c == probe.call.content
        IN  \A k \in 1..Len(c) :
                (/\ ResultLine(c[k])
                 /\ \A j \in (k + 1)..Len(c) :
                        ~(ResultLine(c[j]) /\ c[j].head = c[k].head))
                => \E e \in probe.call.out.Results :
                      /\ e.name = <<Word(c[k].head)>>
                      /\ e.status \in {"ok", "fail"}
                      /\ e.status = "ok" <=> (Zero(c[k].tail.x) /\ Zero(c[k].tail.y))

C17_Witness ==
    /\ ParseReturned
    /\ Len(probe.call.content) = 2
    /\ probe.call.content[1].tail = Tok("std", "", "0", "1")
    /\ probe.call.content[2].tail = Tok("dpi", "", "0", "00")
    /\ \E e \in probe.call.out.Results : e.status = "fail" /\ e.pingFail = 1
    /\ \E e \in probe.call.out.Results : e.status = "ok" /\ e.blocked = 0

\* A text of result lines with pairwise distinct names and one
\* "Best strategy:" line, at position b.
DistinctNamesAndBest(c, b) ==
    /\ Len(c) >= 2
    /\ b \in 1..Len(c)
    /\ c[b].head = BestPrefix.s
    /\ \A k \in 1..Len(c) \ {b} :
          /\ ResultLine(c[k])
          /\ \A j \in 1..Len(c) \ {b, k} : c[j].head # c[k].head

\* The text after "Best strategy:" on a raw line, without the white space
\* around it.
LabelAfterPrefix(l) ==
    (IF l.tail = NoPattern THEN <<>> ELSE <<l.tail>>)
      \o (IF l.rest = "" THEN <<>> ELSE <<Word(l.rest)>>)

\* C18: a text of N >= 1 result lines with pairwise distinct trimmed names
\* and one "Best strategy: X" line parses to exactly N entries, one under
\* the trimmed name of each line, and to the best label X.
C18_OneEntryPerNameAndBest ==
    ParseReturned =>
        LET c == probe.call.content
            out == probe.call.out
        IN  \A b \in 1..Len(c) :
                DistinctNamesAndBest(c, b) =>
                    /\ ~out.err
                    /\ Cardinality(out.Results) = Len(c) - 1
                    /\ {e.name : e \in out.Results} =
                          {<<Word(c[k].head)>> : k \in 1..Len(c) \ {b}}
                    /\ out.Best = LabelAfterPrefix(c[b])

C18_Witness ==
    /\ ParseReturned
    /\ Len(probe.call.content) = 3
    /\ DistinctNamesAndBest(probe.call.content, 2)
    /\ probe.call.content[1].head = "b"
    /\ probe.call.content[3].head = "a"
    /\ probe.call.content[3].gap
    /\ probe.call.content[2].tail # NoPattern
    /\ Cardinality(probe.call.out.Results) = 2

\* C19: parseAnalytics fails with "no analytics parsed" exactly when no
\* line of the text is a result line, as in a text of blank lines, section
\* markers and "Best strategy:" lines only, and succeeds as soon as one
\* line is.
C19_FailsIffNoResultLine ==
    ParseReturned =>
        (probe.call.out.err <=>
            \A k \in 1..Len(probe.call.content) : ~ResultLine(probe.call.content[k]))

C19_Witness ==
    /\ ParseReturned
    /\ Len(probe.call.content) = 3
    /\ probe.call.content[1].head = Marker.s
    /\ probe.call.content[2].head = ""
    /\ probe.call.content[3].head = BestPrefix.s
    /\ \A k \in 1..3 : probe.call.content[k].tail = NoPattern /\ ~probe.call.content[k].gap
    /\ probe.call.out.err


\* listStrategies has returned for the directory it was given.
ListReturned == probe.fn = "listStrategies" /\ probe.n = 1

\* The file names that are strategies: "general" first and ".bat" last, in
\* any case.
StrategyNames == {general1_bat, general2_BAT, GENERAL3_bat}

\* C20: listStrategies returns exactly the non-directory entries of the
\* active release directory whose name starts with "general" and ends with
\* ".bat", compared without case, and does not start with "service"; the
\* list ascends by name and repeats no entry; with no active release it
\* is empty and there is no error.
C20_ListsExactlyTheStrategies ==
    ListReturned =>
        LET out == probe.call.out
            dir == probe.call.dir
        IN  /\ probe.call.current = NoTag => (out.res = <<>> /\ out.err = "")
            /\ (probe.call.current # NoTag /\ dir.exists) =>
                  /\ out.err = ""
                  /\ {out.res[i].Name : i \in 1..Len(out.res)} =
                        {e.name : e \in {d \in dir.entries :
                                            ~d.isDir /\ d.name \in StrategyNames}}
                  /\ \A i \in 1..Len(out.res) : \A j \in (i + 1)..Len(out.res) :
                        Less(out.res[i].Name, out.res[j].Name)

C20_Witness ==
    /\ ListReturned
    /\ probe.call.current # NoTag
    /\ probe.call.dir.exists
    /\ {e.name : e \in probe.call.dir.entries} = {general2_BAT, GENERAL3_bat, service_bat}
    /\ \A e \in probe.call.dir.entries : ~e.isDir
    /\ Len(probe.call.out.res) = 2
    /\ probe.call.out.res[1].Name = GENERAL3_bat
    /\ probe.call.out.res[2].Name = general2_BAT


\* RunTests has returned from its wait loop (service.go:487-516).
RunTestsLoopReturned == rtPc = "idle" /\ rtRet.path = "loop"

\* C21: when RunTests returns, Config.testResults and Config.bestStrategy
\* (the returned snapshot is built from them) equal the result the
\* supervisor received from the watcher when it received one, and are the
\* empty map and the empty string when it received none.
C21_ResultsAreWhatWasReceived ==
    RunTestsLoopReturned =>
        IF rtLocals.parsed # None
        THEN /\ config.testResults = rtLocals.parsed.Results
             /\ config.bestStrategy = rtLocals.parsed.Best
        ELSE /\ config.testResults = EmptyResults
             /\ config.bestStrategy = ""


\* The watcher has delivered a result parsed from the report of this run.
DeliveredOwnReport ==
    /\ rtGhost.delivered # None
    /\ rtGhost.delivered.file.match
    /\ rtGhost.delivered.file.run = rtRun

\* C22: the watcher never delivers a parse of a report the harness has not
\* finished writing: a result delivered from this run's report while the
\* harness was running comes from a report that has its closing
\* "Best strategy:" line.
C22_NoPartialReportDelivered ==
    (DeliveredOwnReport /\ rtGhost.delivered.writing) =>
        rtGhost.delivered.file.best

\* The file a delivered result was parsed from.
DeliveredFrom == rtGhost.delivered.file

\* C23: the file whose content the watcher parses and delivers always has a
\* name that matches test_results_*.txt.
C23_DeliveredFileMatchesConvention ==
    rtGhost.delivered # None => DeliveredFrom.match


\* C24: every RunTests invocation that passed its preconditions eventually
\* returns, under fair scheduling of the supervisor, the watcher and the
\* clock.
C24_RunTestsReturns == (rtPc # "idle") ~> (rtPc = "idle")

\* The harness exited successfully without writing a report; the supervisor
\* stayed in its loop until the deadline and is about to return.
C24_Witness ==
    /\ rtPc = "reconcile"
    /\ harness = "exited"
    /\ psDone = "drained"
    /\ rtLocals = [parsed |-> None, watchErr |-> "deadline", cmdErr |-> ""]
    /\ resultsDir[rtCurrent] = EmptyDir


\* The errors RunStrategy returns after its StopRunning call
\* (service.go:840-871).
LaunchStepErrors == {"no current release", "not found", "launch failed"}

\* RunStrategy has returned one of them.
RunStrategyFailedAfterStop ==
    uiPc = "idle" /\ uiRet.op = "RunStrategy" /\ uiRet.err \in LaunchStepErrors

\* C25: in RunStrategy the termination attempt and the clearing of
\* `running` come before the new strategy is resolved and launched: when
\* the resolution starts, and whenever RunStrategy returns an error after
\* that step, `running` is absent from the Config, and from the document
\* unless a save has failed.
C25_FailedLaunchLeavesNothingTracked ==
    (uiPc = "RunStrategy.launch" \/ RunStrategyFailedAfterStop) =>
        /\ config # None
        /\ config.running = None
        /\ ~saveLost => disk.running = None

\* The only operation so far was a RunStrategy that found a tracked
\* strategy, cleared and saved the entry, and then failed to launch.
C25_Witness ==
    /\ RunStrategyFailedAfterStop
    /\ uiRet.err = "launch failed"
    /\ uiCalls = 1
    /\ lastWrite # None
    /\ lastWrite.running = None
    /\ disk.running = None


\* C26: whenever RunStrategy(file) returns without error, Config.lastStrategy
\* is the base name of file, and a RunningInfo carrying that name and the
\* positive pid captured from the launcher was stored in the Config during
\* the call.
C26_SuccessRecordsStrategy ==
    (probe.fn = "RunStrategy" /\ probe.call.err = "") =>
        /\ config.lastStrategy = probe.call.file
        /\ probe.call.pid > 0
        /\ probe.call.tracked = RunningInfo(probe.call.file, probe.call.pid)


\* C27, as stated: StopRunning can run in every state in which it is
\* invoked, a RunTests invocation being in flight or not; when it returns,
\* `running` is cleared; and it returns no error when nothing is tracked.
C27_StopRunningAlwaysSucceeds ==
    /\ uiPc = "StopStrategy" => ENABLED UiStopRunning
    /\ StopRunningReturned => (config # None /\ config.running = None)
    /\ ~(StopRunningFailed /\ disk.running = None)

\* C27, amended: StopRunning can run in every state in which it is invoked;
\* it returns nil with `running` cleared whenever a Config is in memory or
\* can be loaded, which is so throughout a RunTests invocation that passed
\* its preconditions; the only error it returns is loadConfig's, with no
\* Config in memory, whether or not something is tracked.
C27_StopRunningNeverBlocks ==
    /\ [](uiPc = "StopStrategy" => ENABLED UiStopRunning)
    /\ [](StopRunningReturned => (config # None /\ config.running = None))
    /\ []((uiPc = "StopStrategy" /\ RunTestsInSection) => config # None)
    /\ [][(uiPc = "StopStrategy" /\ StopRunningFailed')
              => (config = None /\ ~RunTestsInSection)]_vars

\* StopRunning returned in the middle of a test run, the supervisor still
\* in its wait loop, having cleared and saved a tracked entry.
C27_Witness ==
    /\ uiPc = "StopStrategy.State"
    /\ rtPc = "wait"
    /\ harness = "running"
    /\ config.running = None
    /\ lastWrite.running = None
    /\ lastWrite.testInProgress
    /\ ~alive


\* loadConfig has returned a Config to caller c.
LoadReturned(c) ==
    probe.fn = "loadConfig" /\ probe.pc[c] \in {"loaded", "mutated", "saved"}

\* C28: all loadConfig calls of one process, those running concurrently
\* before the first load has completed included, return the same Config
\* instance, the one s.config points at; so a field a caller has set
\* through its Config is in the document its saveConfig writes.
C28_OneConfigInstance ==
    /\ \A c, d \in Callers :
          (LoadReturned(c) /\ LoadReturned(d)) => probe.cfg[c] = probe.cfg[d]
    /\ \A c \in Callers :
          LoadReturned(c) => probe.cfg[c] = probe.sconfig
    /\ \A c \in Callers :
          (LoadReturned(c) /\ probe.pc[c] = "saved") => lastWrite.lastTestAt # 0


\* The step is a State call that found the Config in memory and returned a
\* snapshot.
StateRead ==
    /\ config # None
    /\ probe'.fn = "State"
    /\ probe'.n = Calls("State") + 1
    /\ probe'.call.err = ""

\* The fields of the Config other than `running`.
KeptFields ==
    {"version", "lastStrategy", "lastTestAt", "testInProgress", "testResults",
     "bestStrategy"}

\* C29: a State read leaves version, lastStrategy, lastTestAt,
\* testInProgress, testResults and bestStrategy as they were, in memory and
\* in the persisted document; of the Config it changes `running` only.
C29_StateReadChangesRunningOnly ==
    [][StateRead => \A f \in KeptFields :
                       config'[f] = config[f] /\ disk'[f] = disk[f]]_vars


\* The entry a result line stands for: its trimmed name and the counts of
\* its pattern.
EntryOf(l) ==
    IF l.tail.t = "std" THEN StdResult(<<Word(l.head)>>, l.tail)
    ELSE DpiResult(<<Word(l.head)>>, l.tail)

\* Line k is the last result line of the content that carries its name.
LastOfName(c, k) ==
    /\ ResultLine(c[k])
    /\ \A j \in (k + 1)..Len(c) : ~(ResultLine(c[j]) /\ c[j].head = c[k].head)

\* Line b is the last `Best strategy:` line of the content.
LastBest(c, b) ==
    /\ c[b].head = BestPrefix.s
    /\ \A j \in (b + 1)..Len(c) : c[j].head # BestPrefix.s

\* C30: within one parseAnalytics call the map holds, for every strategy
\* name, the values of the last result line carrying that name, and the
\* best label returned is that of the last `Best strategy:` line.
C30_LastOccurrenceWins ==
    ParseReturned =>
        LET c == probe.call.content
            out == probe.call.out
        IN  /\ \A k \in 1..Len(c) :
                  LastOfName(c, k) =>
                      /\ ~out.err
                      /\ \A e \in out.Results :
                            e.name = <<Word(c[k].head)>> => e = EntryOf(c[k])
                      /\ EntryOf(c[k]) \in out.Results
            /\ \A b \in 1..Len(c) :
                  (LastBest(c, b) /\ ~out.err) =>
                      out.Best = LabelAfterPrefix(c[b])

\* Two result lines with one name and different values were parsed, and the
\* map holds the second line's values only.
C30_Witness ==
    /\ ParseReturned
    /\ Len(probe.call.content) = 2
    /\ ResultLine(probe.call.content[1])
    /\ ResultLine(probe.call.content[2])
    /\ probe.call.content[1].head = probe.call.content[2].head
    /\ probe.call.content[1].lead /\ ~probe.call.content[2].lead
    /\ EntryOf(probe.call.content[1]) # EntryOf(probe.call.content[2])
    /\ probe.call.out.Results = {EntryOf(probe.call.content[2])}


\* The last CheckAndUpdate call set cfg.Version (service.go:294): the lookup
\* gave a tag other than the version loadConfig returned and downloadAndUnpack
\* returned nil; the save that follows may have failed.
VersionSetByUpdate ==
    /\ probe.fn = "CheckAndUpdate"
    /\ probe.call.err \in {"", "save"}
    /\ probe.call.before.lookup # probe.call.loaded

\* C31: after any sequence of CheckAndUpdate calls, failed extractions
\* included, when a call has set `version` to a tag the release directory of
\* that tag holds the complete extraction of the tag's archive (nothing at
\* all when the archive it just unpacked has no entries); a directory left
\* by a failed extraction is never adopted.
C31_AdoptedReleaseIsComplete ==
    VersionSetByUpdate =>
        \/ releases[config.version] = "full"
        \/ releases[config.version] = "absent" /\ probe.call.work = "unzip"


\* C32: in every state where no RunTests invocation is executing, also
\* after the host process died during a test run and was started again,
\* the loaded Config has testInProgress = FALSE.
C32_IdleMeansNotInProgress ==
    (rtPc = "idle" /\ config # None) => ~config.testInProgress


\* The watcher goroutine of the current invocation has not returned yet.
WatcherRunning == watcher \in {"polling", "orphan"}

\* C33: in every RunTests invocation the watcher sends at most one value
\* over resultCh and errCh together; while it can still send it has sent
\* nothing and both channels (capacity 1) are empty, so its send never
\* blocks; and once RunTests has returned, on every exit path, the watcher
\* terminates.
C33_WatcherSendsOnceAndEnds ==
    /\ [](rtGhost.sent <= 1)
    /\ [](WatcherRunning => (rtGhost.sent = 0 /\ resultCh = None /\ errCh = ""))
    /\ [](watcher = "done" => rtGhost.sent = 1)
    /\ (rtPc = "idle" /\ WatcherRunning) ~> (watcher = "done")

\* RunTests has returned after a failed launch while its watcher is still
\* running: nothing was sent yet, and the cancelled context will end it.
C33_Witness ==
    /\ rtPc = "idle"
    /\ rtRet.path = "launch failed"
    /\ watcher = "orphan"
    /\ rtGhost.sent = 0


\* The wait loop of the current invocation has ended (service.go:452-485).
WaitLoopEnded ==
    rtPc \in {"grace", "reconcile"} \/ RunTestsLoopReturned

\* C34: whenever the wait loop has ended without a parsed result, the
\* watcher error or the process exit error is set and is no cancellation
\* error, so RunTests never returns the generic "test results file not
\* found" error; and with a parsed result no process exit error is set, so
\* none is returned together with a parsed result.
C34_LoopEndsWithResultOrError ==
    /\ (WaitLoopEnded /\ rtLocals.parsed = None) =>
           \/ rtLocals.watchErr \notin {"", "canceled"}
           \/ rtLocals.cmdErr \notin {"", "canceled"}
    /\ (WaitLoopEnded /\ rtLocals.parsed # None) => rtLocals.cmdErr = ""
    /\ RunTestsLoopReturned =>
           /\ rtRet.err # "not found"
           /\ rtLocals.parsed # None => rtRet.err = ""

\* RunTests returned from the loop with no parsed result and no watcher
\* error: the harness had exited with an error, which is what it returned.
C34_Witness ==
    /\ RunTestsLoopReturned
    /\ rtLocals.parsed = None
    /\ rtLocals.watchErr = ""
    /\ rtLocals.cmdErr # ""
    /\ rtRet.err = rtLocals.cmdErr


\* The ui caller is between two public operations.
OperationBoundary == uiPc = "idle" /\ rtPc = "idle"

\* C35: at every boundary between public operations, if `running` is
\* present in the Config then running.file equals lastStrategy.
C35_RunningFileIsLastStrategy ==
    (OperationBoundary /\ config # None /\ config.running # None) =>
        config.running.file = config.lastStrategy

=============================================================================
